---- MODULE Spec2Model ----
(***************************************************************************)
(* A model of the scilifelab_epps scripts                                  *)
(*   scripts/zika_methods.py   pool() and norm(), the volume solver        *)
(*   scripts/zika_utils.py     the worklist formatter (imported as zika)   *)
(*   scripts/generate_aviti_run_manifest.py   the AVITI run manifest       *)
(*                                                                         *)
(* Volumes, concentrations and amounts are exact rationals <<n, d>> in     *)
(* lowest terms with d > 0 (ul, ng/ul or nM, ng or fmol).                  *)
(* zika_methods.py calls the functions of zika_utils.py through the module *)
(* name zika; they are modelled by their bodies in zika_utils.py.          *)
(***************************************************************************)
EXTENDS Integers, Sequences, FiniteSets, TLC

VARIABLES
  method,        \* the entry point that runs: "pool", "norm", "manifest", ...
  pc,            \* the position in it
  inp,           \* the input: the LIMS step, or the arguments of a function
  i,             \* the index of the loop over pools or samples
  log,           \* the list log of pool() and norm()
  solved,        \* the solved pools of pool(); the dict d of norm()
  df_wl,         \* the transfer plan, one row per transfer
  buffer_vols,   \* pool() only
  df_formatted,  \* the formatted worklist
  sample_rows,   \* make_manifests: sample_rows, then df_samples_and_controls
  manifests,     \* make_manifests: the manifests built
  res,           \* the value returned by the function a run applies
  events,        \* the effects on the LIMS and the file system, in order
  exit_code,     \* -1 while running, then 0, 2 (sys.exit(2)) or 1 (raised)
  compared       \* make_manifests: the calls of check_pair_distance, as pairs of
                 \* row positions in df_samples_and_controls

vars == <<method, pc, inp, i, log, solved, df_wl, buffer_vols, df_formatted,
          sample_rows, manifests, res, events, exit_code, compared>>

(***************************************************************************)
(* Exact rational arithmetic                                               *)
(***************************************************************************)
Abs(x) == IF x < 0 THEN -x ELSE x

RECURSIVE GCD(_, _)
GCD(a, b) == IF b = 0 THEN a ELSE GCD(b, a % b)

R(n, d) ==
  LET g == GCD(Abs(n), Abs(d))
      s == IF d < 0 THEN -1 ELSE 1
  IN  <<(s * n) \div g, (s * d) \div g>>

I(n) == <<n, 1>>

RMul(x, y) ==
  LET g1 == GCD(Abs(x[1]), y[2])
      g2 == GCD(Abs(y[1]), x[2])
  IN  IF x[1] = 0 \/ y[1] = 0 THEN <<0, 1>>
      ELSE <<(x[1] \div g1) * (y[1] \div g2), (x[2] \div g2) * (y[2] \div g1)>>
RDiv(x, y) == RMul(x, IF y[1] < 0 THEN <<-y[2], -y[1]>> ELSE <<y[2], y[1]>>)
RAdd(x, y) ==
  LET g == GCD(x[2], y[2])
  IN  R(x[1] * (y[2] \div g) + y[1] * (x[2] \div g), (x[2] \div g) * y[2])
RSub(x, y) == RAdd(x, <<-y[1], y[2]>>)
RLt(x, y) ==
  LET g == GCD(x[2], y[2])
  IN  x[1] * (y[2] \div g) < y[1] * (x[2] \div g)
RLe(x, y) == ~RLt(y, x)
RMin(x, y) == IF RLe(x, y) THEN x ELSE y
RMax(x, y) == IF RLe(x, y) THEN y ELSE x

\* floor of a rational
RFloor(x) == x[1] \div x[2]

\* round(x, 0) as python and numpy do it: to the nearest integer, ties to even
RoundInt(x) ==
  LET f == RFloor(x)
      twice == 2 * (x[1] - f * x[2])
  IN  IF twice < x[2] THEN f
      ELSE IF twice > x[2] THEN f + 1
      ELSE IF f % 2 = 0 THEN f ELSE f + 1

\* round(x, 2)
Round2(x) == R(RoundInt(RMul(x, I(100))), 100)

RECURSIVE RSum(_)
RSum(s) == IF s = <<>> THEN I(0) ELSE RAdd(Head(s), RSum(Tail(s)))

RECURSIVE RMaxOf(_)
RMaxOf(s) == IF Len(s) = 1 THEN s[1] ELSE RMax(s[1], RMaxOf(Tail(s)))

RECURSIVE RMinOf(_)
RMinOf(s) == IF Len(s) = 1 THEN s[1] ELSE RMin(s[1], RMinOf(Tail(s)))

(***************************************************************************)
(* Log entries are sequences of tokens; python's '"WARNING:" in entry'     *)
(* finds the token.                                                        *)
(***************************************************************************)
IsWarning(entry) == \E k \in DOMAIN entry : entry[k] = "WARNING:"

AnyWarning(l) == \E k \in DOMAIN l : IsWarning(l[k])

\* f applied to every element of a sequence
Map(f(_), s) == [k \in DOMAIN s |-> f(s[k])]

(***************************************************************************)
(* zika_methods.pool: parameters (defaults of the signature)               *)
(***************************************************************************)
pool_zika_min_vol == <<1, 2>>
well_dead_vol == 5
pool_well_max_vol == 180

\* line 131-133: negative or negligible concentrations are set to 0.01
conc_floor == <<1, 100>>
ClampConc(conc) == IF RLt(conc, conc_floor) THEN conc_floor ELSE conc

\* line 158-167: nudge the pool concentration
NudgeConc(target_pool_conc, pool_min_conc, pool_max_conc) ==
  IF RLt(pool_max_conc, target_pool_conc) THEN pool_max_conc
  ELSE IF RLt(target_pool_conc, pool_min_conc) THEN pool_min_conc
  ELSE target_pool_conc

\* line 170 and 174: a volume bound given the concentration, capped at the well
VolGivenConc(amt, pool_conc, well_max_vol) ==
  RMin(RDiv(amt, pool_conc), I(well_max_vol))

\* line 172-192: nudge the pool volume
NudgeVol(even_pool_is_possible, target_pool_vol, pool_min_vol_given_conc, pool_max_vol_given_conc, well_max_vol) ==
  IF even_pool_is_possible
  THEN IF RLt(target_pool_vol, pool_min_vol_given_conc)
       THEN pool_min_vol_given_conc
       ELSE IF RLt(pool_max_vol_given_conc, target_pool_vol)
       THEN I(well_max_vol)
       ELSE target_pool_vol
  ELSE pool_min_vol_given_conc

\* line 224: the transfer volume of one sample
TransferVol(sample_transfer_amount, conc, vol) ==
  RMin(RDiv(sample_transfer_amount, conc), vol)

\* line 235 and 243: a fraction deviating from 1
IsOutlier(frac) == RLt(frac, <<199, 200>>) \/ RLt(<<201, 200>>, frac)

(***************************************************************************)
(* One iteration of the loop over the pools, lines 99-252.                 *)
(* df_pool: the samples of the pool, vol already the accessible volume;    *)
(* pl: the output analyte (target volume, and either "Pool Conc. (nM)" or  *)
(* the amount taken); n_all: len(df_all).                                  *)
(***************************************************************************)
\* line 122-124: all pools should have UDFs within the allowed range
PoolUdfsOk(df_pool, pl, well_max_vol) ==
  LET target_amt == IF pl.unit = "fmol"
                    THEN RDiv(RMul(pl.target, pl.pool_vol_final), I(Len(df_pool)))
                    ELSE pl.target
  IN  /\ RLt(I(0), pl.pool_vol_final)
      /\ RLe(pl.pool_vol_final, I(well_max_vol))
      /\ RLt(I(0), target_amt)

SolvePool(df_pool, pl, n_all, zika_min_vol, well_max_vol) ==
  LET n == Len(df_pool)
      target_pool_vol == pl.pool_vol_final
      fmol == pl.unit = "fmol"
      target_pool_conc == IF fmol
                          THEN pl.target
                          ELSE RDiv(RMul(pl.target, I(n)), target_pool_vol)
      low == {k \in 1..n : RLt(df_pool[k].conc, conc_floor)}
      conc == [k \in 1..n |-> ClampConc(df_pool[k].conc)]
      vol == [k \in 1..n |-> df_pool[k].vol]
      min_amount == [k \in 1..n |-> RMul(zika_min_vol, conc[k])]
      max_amount == [k \in 1..n |-> RMul(vol[k], conc[k])]
      highest_min_amount == RMaxOf(min_amount)
      lowest_max_amount == RMinOf(max_amount)
      even_pool_is_possible == RLt(highest_min_amount, lowest_max_amount)
      pool_min_amt == RMul(highest_min_amount, I(n))
      pool_min_sample_vol ==
        RSum([k \in 1..n |-> RDiv(highest_min_amount, conc[k])])
      pool_min_conc == RDiv(pool_min_amt, I(well_max_vol))
      pool_max_conc == RDiv(pool_min_amt, pool_min_sample_vol)
      pool_conc == NudgeConc(target_pool_conc, pool_min_conc, pool_max_conc)
      pool_min_vol_given_conc == VolGivenConc(pool_min_amt, pool_conc, well_max_vol)
      pool_max_amt == RMul(lowest_max_amount, I(n))
      pool_max_vol_given_conc == VolGivenConc(pool_max_amt, pool_conc, well_max_vol)
      pool_vol == NudgeVol(even_pool_is_possible, target_pool_vol,
                           pool_min_vol_given_conc, pool_max_vol_given_conc,
                           well_max_vol)
      sample_transfer_amount == RDiv(RMul(pool_conc, pool_vol), I(n))
      transfer_vol ==
        [k \in 1..n |-> TransferVol(sample_transfer_amount, conc[k], vol[k])]
      transfer_amt == [k \in 1..n |-> RMul(transfer_vol[k], conc[k])]
      final_conc_fraction ==
        [k \in 1..n |->
           Round2(RDiv(RDiv(transfer_amt[k], pool_vol), RDiv(pool_conc, I(n))))]
      final_amt_fraction ==
        [k \in 1..n |-> Round2(RDiv(transfer_amt[k], pl.target))]
      total_sample_vol == RSum(transfer_vol)
      buffer == RSub(pool_vol, total_sample_vol)
      outlier_conc == \E k \in 1..n : IsOutlier(final_conc_fraction[k])
      outlier_amt == ~fmol /\ \E k \in 1..n : IsOutlier(final_amt_fraction[k])
      entries ==
           << <<"Pooling">>, <<"Target">> >>
        \o (IF low # {} THEN << <<"WARNING:", "fell short of 0.01">> >> ELSE <<>>)
        \o << <<"Pool can be created for">> >>
        \o (IF even_pool_is_possible THEN <<>>
            ELSE << <<"WARNING:", "depleted and under-represented">> >>)
        \o (IF target_pool_conc # pool_conc
            THEN << <<"WARNING:", "Target pool conc is adjusted">> >> ELSE <<>>)
        \o (IF target_pool_vol # pool_vol
            THEN << <<"WARNING:", "Target pool vol is adjusted">> >> ELSE <<>>)
        \o (IF target_pool_conc = pool_conc /\ target_pool_vol = pool_vol
            THEN << <<"Pooling OK">> >> ELSE <<>>)
        \o (IF outlier_conc THEN << <<"deviate from the target concentration">> >>
            ELSE <<>>)
        \o (IF outlier_amt THEN << <<"deviate from the target amount">> >>
            ELSE <<>>)
        \o << <<"\n">> >>
  IN  [ low |-> low,
        even_pool_is_possible |-> even_pool_is_possible,
        target_pool_conc |-> target_pool_conc,
        target_pool_vol |-> target_pool_vol,
        highest_min_amount |-> highest_min_amount,
        lowest_max_amount |-> lowest_max_amount,
        pool_min_conc |-> pool_min_conc,
        pool_max_conc |-> pool_max_conc,
        pool_conc |-> pool_conc,
        pool_min_vol_given_conc |-> pool_min_vol_given_conc,
        pool_max_vol_given_conc |-> pool_max_vol_given_conc,
        pool_vol |-> pool_vol,
        sample_transfer_amount |-> sample_transfer_amount,
        transfer_vol |-> transfer_vol,
        buffer |-> buffer,
        udf |-> [ final_volume |-> Round2(pool_vol),
                  unit |-> pl.unit,
                  value |-> IF fmol THEN Round2(pool_conc)
                            ELSE Round2(RDiv(RMul(pool_conc, pool_vol), I(n_all))) ],
        entries |-> entries ]

(***************************************************************************)
(* zika_utils.format_worklist                                              *)
(* A well is <<row, col>>, row 1..8 for A..H and col 1..12; well2rowcol     *)
(* returns both as strings, so the sort compares columns as text.          *)
(***************************************************************************)
max_vol == 5000
transfer_ceiling == 180000

\* the rank of str(col) among the column names "1".."12" in text order
ColKey(col) == IF col = 1 THEN 1 ELSE IF col >= 10 THEN col - 8 ELSE col + 3

\* line 175-176: volumes to whole nl
ToNl(transfer_vol) ==
  LET whole == RFloor(transfer_vol)
      part == <<transfer_vol[1] - whole * transfer_vol[2], transfer_vol[2]>>
  IN  1000 * whole + RoundInt(RMul(part, I(1000)))

\* line 188: pooling, by dst column, dst row, then descending volume
PoolBefore(a, b) ==
  \/ ColKey(a.dst_well[2]) < ColKey(b.dst_well[2])
  \/ /\ a.dst_well[2] = b.dst_well[2]
     /\ \/ a.dst_well[1] < b.dst_well[1]
        \/ a.dst_well[1] = b.dst_well[1] /\ a.transfer_vol > b.transfer_vol

\* line 185: normalization, by source type (buffer first), dst column, dst row
NormBefore(a, b) ==
  \/ a.src_type = "buffer" /\ b.src_type = "sample"
  \/ /\ a.src_type = b.src_type
     /\ \/ ColKey(a.dst_well[2]) < ColKey(b.dst_well[2])
        \/ a.dst_well[2] = b.dst_well[2] /\ a.dst_well[1] < b.dst_well[1]

Before(a, b) ==
  IF "src_type" \in DOMAIN a THEN NormBefore(a, b) ELSE PoolBefore(a, b)

\* a stable sort (pandas sorts several keys with a stable lexsort): the place
\* of row k is one more than the number of rows that come before it
Ranks(s) ==
  [k \in DOMAIN s |->
     1 + Cardinality({ j \in DOMAIN s :
                         \/ Before(s[j], s[k])
                         \/ ~Before(s[k], s[j]) /\ j < k })]

SortByRank(s, ranks) == [p \in DOMAIN s |-> s[CHOOSE k \in DOMAIN s : ranks[k] = p]]

\* the ranks as a tuple, which is computed once
SortRows(s) == SortByRank(s, Ranks(s) \o <<>>)

\* a formatter that does not check the instrument ceiling
CeilingNotChecked(df) == TRUE

\* line 193
TransfersBelowCeiling(df) ==
  \A k \in DOMAIN df : df[k].transfer_vol < transfer_ceiling

\* line 209-213: the copies of max_vol appended while the rest exceeds max_vol
RECURSIVE NChunks(_)
NChunks(v) == IF v > max_vol THEN 1 + NChunks(v - max_vol) ELSE 0

\* rows above max_vol cut down to max_vol, the rest dropped
SplitRow_truncating(row) ==
  IF row.transfer_vol > max_vol THEN << [row EXCEPT !.transfer_vol = max_vol] >>
  ELSE <<row>>

\* line 197-228: the rows one row is replaced by
SplitRow(row) ==
  IF row.transfer_vol > max_vol
  THEN LET nc == NChunks(row.transfer_vol)
           df_being_split == [k \in 1..nc |-> [row EXCEPT !.transfer_vol = max_vol]]
           rest == [row EXCEPT !.transfer_vol = row.transfer_vol - nc * max_vol]
       IN  IF "src_type" \in DOMAIN row /\ row.src_type = "sample"
           THEN <<rest>> \o df_being_split
           ELSE df_being_split \o <<rest>>
  ELSE <<row>>

RECURSIVE SplitAll(_)
SplitAll(df) ==
  IF df = <<>> THEN <<>> ELSE SplitRow(Head(df)) \o SplitAll(Tail(df))

\* line 164-189: the rows in nl, sorted
PrepareWorklist(df, deck) ==
  SortRows([k \in DOMAIN df |->
              [df[k] EXCEPT !.transfer_vol = ToNl(df[k].transfer_vol)]
                 @@ [src_pos |-> deck[df[k].src_name],
                     dst_pos |-> deck[df[k].dst_name]]])

\* line 164-233
format_worklist(df, deck) ==
  LET sorted == PrepareWorklist(df, deck)
  IN  IF TransfersBelowCeiling(sorted)
      THEN [ok |-> TRUE, df |-> SplitAll(sorted)]
      ELSE [ok |-> FALSE, df |-> <<>>]

(***************************************************************************)
(* Inputs of pool(): a LIMS step with one or two pools.                    *)
(***************************************************************************)
MaxSamples == 3
MaxPools == 2

\* <<Concentration, Volume (ul)>> of an input artifact
PoolSampleTypes ==
  << [conc |-> <<1, 200>>, vol |-> I(25)],
     [conc |-> I(1), vol |-> I(105)],
     [conc |-> <<41, 4>>, vol |-> I(25)],
     [conc |-> I(1000), vol |-> I(105)],
     [conc |-> I(1), vol |-> I(190)],
     [conc |-> I(300), vol |-> I(105)],
     [conc |-> I(5), vol |-> I(4)] >>

\* "Pool Conc. (nM)" when the pool has it, else the "Amount taken (ng)"
PoolTargets ==
  { [unit |-> "fmol", target |-> I(1)],
    [unit |-> "fmol", target |-> I(10)],
    [unit |-> "ng", target |-> I(10)] }

\* "Final Volume (uL)" of a pool
PoolVolumes == { I(20), I(100), I(200) }

\* the samples of one pool, as indices of PoolSampleTypes
SampleLists(n) ==
  { t \in [1..n -> DOMAIN PoolSampleTypes] : \A k \in 1..(n - 1) : t[k] <= t[k + 1] }

PoolsOf(n, tg) ==
  { [unit |-> tg.unit, target |-> tg.target, pool_vol_final |-> v,
     samples |-> [k \in 1..n |-> PoolSampleTypes[t[k]]]] :
       v \in PoolVolumes, t \in SampleLists(n) }

\* a step with one pool, or with two pools of the same kind of target and the
\* same final volume
PoolInputs ==
  UNION { { <<p>> : p \in PoolsOf(n, tg) } : n \in 1..MaxSamples, tg \in PoolTargets }
  \cup UNION { { pq \in PoolsOf(nm[1], tg) \X PoolsOf(nm[2], tg) :
                     pq[1].pool_vol_final = pq[2].pool_vol_final } :
                 nm \in { x \in (1..MaxSamples) \X (1..MaxSamples) :
                            MaxPools >= 2 /\ x[1] + x[2] <= MaxSamples },
                 tg \in PoolTargets }

RECURSIVE CountSamples(_)
CountSamples(pools) ==
  IF pools = <<>> THEN 0 ELSE Len(Head(pools).samples) + CountSamples(Tail(pools))

(***************************************************************************)
(* The run of pool(), one action per block of the function.                *)
(***************************************************************************)
Raise == /\ pc' = "raised"
         /\ exit_code' = 1

\* line 78: all samples should have accessible volume
AllAccessible(pools, dead) ==
  \A p \in DOMAIN pools : \A k \in DOMAIN pools[p].samples :
     RLt(I(dead), pools[p].samples[k].vol)

\* line 82: adjust for dead volume
Accessible(samples, dead) ==
  [k \in DOMAIN samples |-> [samples[k] EXCEPT !.vol = RSub(@, I(dead))]]

pool_deck == [src |-> 2, dst |-> 3]

\* lines 47-97
pool_fetch ==
  /\ method = "pool" /\ pc = "fetch"
  /\ log' = << <<"Minimum pipetting volume">>, <<"Applied dead volume">>,
               <<"Maximum allowed pool volume">> >>
  /\ IF AllAccessible(inp, well_dead_vol)
     THEN /\ pc' = "pools"
          /\ i' = 1
          /\ UNCHANGED exit_code
     ELSE /\ Raise
          /\ UNCHANGED i
  /\ UNCHANGED <<compared, method, inp, sample_rows, manifests, res, solved, df_wl, buffer_vols, df_formatted, events>>

\* the rows of one pool appended to df_wl, line 222-252
PoolRows(p, n_before, r) ==
  [k \in DOMAIN r.transfer_vol |->
     [pool |-> p, sample |-> n_before + k,
      src_name |-> "src", src_well |-> <<((n_before + k - 1) % 8) + 1, 1>>,
      dst_name |-> "dst", dst_well |-> <<p, 1>>,
      transfer_vol |-> r.transfer_vol[k]]]

\* line 231: the buffer of a pool is kept when above 0.5 ul
KeepsBuffer(buffer) == RLt(<<1, 2>>, buffer)

\* line 131-132: with a concentration below 0.01 in the pool, the names of those
\* samples are read from the column "name", and df_pool has the columns of
\* to_fetch (line 57-72), where the sample name is "sample_name": KeyError
LowConcNamesMissing(df_pool) ==
  \E k \in DOMAIN df_pool : RLt(df_pool[k].conc, conc_floor)

KeyErrorName == <<"KeyError", "name">>

\* one pool, solved without its write-back
pool_iteration_without_put ==
  /\ method = "pool" /\ pc = "pools" /\ i <= Len(inp)
  /\ LET df_pool == Accessible(inp[i].samples, well_dead_vol)
     IN  IF PoolUdfsOk(df_pool, inp[i], pool_well_max_vol) /\ LowConcNamesMissing(df_pool)
         THEN /\ Raise
              /\ res' = KeyErrorName
              /\ UNCHANGED <<log, events, solved, df_wl, buffer_vols, i>>
         ELSE IF PoolUdfsOk(df_pool, inp[i], pool_well_max_vol)
         THEN LET r == SolvePool(df_pool, inp[i], CountSamples(inp),
                                 pool_zika_min_vol, pool_well_max_vol)
              IN  /\ log' = log \o r.entries
                  /\ events' = events
                  /\ df_wl' = df_wl \o PoolRows(i, Len(df_wl), r)
                  /\ buffer_vols' = IF KeepsBuffer(r.buffer)
                                    THEN buffer_vols @@ (i :> r.buffer)
                                    ELSE buffer_vols
                  /\ solved' = Append(solved, r)
                  /\ i' = i + 1
                  /\ UNCHANGED <<pc, exit_code, res>>
         ELSE /\ Raise
              /\ UNCHANGED <<log, events, solved, df_wl, buffer_vols, i, res>>
  /\ UNCHANGED <<compared, method, inp, sample_rows, manifests, df_formatted>>

\* lines 99-252, one pool
pool_iteration ==
  /\ method = "pool" /\ pc = "pools" /\ i <= Len(inp)
  /\ LET df_pool == Accessible(inp[i].samples, well_dead_vol)
     IN  IF PoolUdfsOk(df_pool, inp[i], pool_well_max_vol) /\ LowConcNamesMissing(df_pool)
         THEN /\ Raise
              /\ res' = KeyErrorName
              /\ UNCHANGED <<log, events, solved, df_wl, buffer_vols, i>>
         ELSE IF PoolUdfsOk(df_pool, inp[i], pool_well_max_vol)
         THEN LET r == SolvePool(df_pool, inp[i], CountSamples(inp),
                                 pool_zika_min_vol, pool_well_max_vol)
              IN  /\ log' = log \o r.entries
                  /\ events' = Append(events, [op |-> "put", item |-> i, udf |-> r.udf])
                  /\ df_wl' = df_wl \o PoolRows(i, Len(df_wl), r)
                  /\ buffer_vols' = IF KeepsBuffer(r.buffer)
                                    THEN buffer_vols @@ (i :> r.buffer)
                                    ELSE buffer_vols
                  /\ solved' = Append(solved, r)
                  /\ i' = i + 1
                  /\ UNCHANGED <<pc, exit_code, res>>
         ELSE /\ Raise
              /\ UNCHANGED <<log, events, solved, df_wl, buffer_vols, i, res>>
  /\ UNCHANGED <<compared, method, inp, sample_rows, manifests, df_formatted>>

\* line 255
pool_format ==
  /\ method = "pool" /\ pc = "pools" /\ i > Len(inp)
  /\ LET f == format_worklist(df_wl, pool_deck)
     IN  IF f.ok
         THEN /\ df_formatted' = f.df
              /\ pc' = "write_worklist"
              /\ UNCHANGED exit_code
         ELSE /\ Raise
              /\ UNCHANGED df_formatted
  /\ UNCHANGED <<compared, method, inp, sample_rows, manifests, res, i, log, solved, df_wl, buffer_vols, events>>

\* line 263-277: the header comments, and the worklist file
pool_write_worklist ==
  /\ method = "pool" /\ pc = "write_worklist"
  /\ events' = Append(events,
                 [op |-> "write_worklist", rows |-> df_formatted,
                  buffer_comments |-> DOMAIN buffer_vols])
  /\ pc' = "write_log"
  /\ UNCHANGED <<compared, method, inp, sample_rows, manifests, res, i, log, solved, df_wl, buffer_vols, df_formatted, exit_code>>

\* line 279
pool_write_log ==
  /\ method = "pool" /\ pc = "write_log"
  /\ events' = Append(events, [op |-> "write_log", log |-> log])
  /\ pc' = "upload_csv"
  /\ UNCHANGED <<compared, method, inp, sample_rows, manifests, res, i, log, solved, df_wl, buffer_vols, df_formatted, exit_code>>

\* line 282
pool_upload_csv ==
  /\ method = "pool" /\ pc = "upload_csv"
  /\ events' = Append(events, [op |-> "upload_csv"])
  /\ pc' = "upload_log"
  /\ UNCHANGED <<compared, method, inp, sample_rows, manifests, res, i, log, solved, df_wl, buffer_vols, df_formatted, exit_code>>

\* line 283
pool_upload_log ==
  /\ method = "pool" /\ pc = "upload_log"
  /\ events' = Append(events, [op |-> "upload_log"])
  /\ pc' = "warnings"
  /\ UNCHANGED <<compared, method, inp, sample_rows, manifests, res, i, log, solved, df_wl, buffer_vols, df_formatted, exit_code>>

\* line 285-290: sys.exit(2) when a warning was logged, else the function returns
ExitCodeIgnoringWarnings(l) == 0

ExitCode(l) == IF AnyWarning(l) THEN 2 ELSE 0

pool_exit ==
  /\ method = "pool" /\ pc = "warnings"
  /\ exit_code' = ExitCode(log)
  /\ pc' = "done"
  /\ UNCHANGED <<compared, method, inp, sample_rows, manifests, res, i, log, solved, df_wl, buffer_vols, df_formatted, events>>

InitPool ==
  /\ method = "pool"
  /\ pc = "fetch"
  /\ inp \in PoolInputs
  /\ i = 0
  /\ log = <<>>
  /\ solved = <<>>
  /\ sample_rows = <<>>
  /\ manifests = <<>>
  /\ res = <<>>
  /\ df_wl = <<>>
  /\ buffer_vols = <<>>
  /\ df_formatted = <<>>
  /\ events = <<>>
  /\ exit_code = -1
  /\ compared = <<>>

NextPool ==
  \/ pool_fetch
  \/ pool_iteration
  \/ pool_format
  \/ pool_write_worklist
  \/ pool_write_log
  \/ pool_upload_csv
  \/ pool_upload_log
  \/ pool_exit

SpecPool == InitPool /\ [][NextPool]_vars

(***************************************************************************)
(* zika_methods.norm                                                       *)
(***************************************************************************)
norm_well_max_vol == 15

\* line 390-422: the case of one sample
NormCase(r) ==
  IF RLt(r.max_transfer_amt, r.target_amt) THEN 1
  ELSE IF RLe(r.min_transfer_amt, r.target_amt) THEN 2
  ELSE 3

\* the accessible volume, capped at the target volume, whatever the case
SampleVol_all_accessible(r, case, zika_min_vol) == RMin(r.target_vol, r.vol)

\* line 392, 402, 416, 420
SampleVol(r, case, zika_min_vol) ==
  IF case = 1 THEN RMin(r.target_vol, r.vol)
  ELSE IF case = 2 THEN RDiv(r.target_amt, r.conc)
  ELSE zika_min_vol

\* line 410
IncreasedVol(r) == RDiv(r.min_transfer_amt, r.target_conc)

\* line 393, 404, 415, 421: in case 2 the sum of the two volumes
TotVol(r, case, volume_expansion, sample_vol) ==
  IF case = 3 /\ volume_expansion THEN IncreasedVol(r)
  ELSE IF case = 2 THEN RAdd(sample_vol, RSub(r.target_vol, sample_vol))
  ELSE r.target_vol

\* line 394, 403, 417, 422
BufferVol(r, case, sample_vol, tot_vol) ==
  IF case = 2 THEN RSub(r.target_vol, sample_vol) ELSE RSub(tot_vol, sample_vol)

\* line 411-413
DilutionFits(r, case, volume_expansion, well_max_vol) ==
  case = 3 /\ volume_expansion => RLe(IncreasedVol(r), I(well_max_vol))

\* line 376-379: the calculated columns of one row
NormRow(smp, zika_min_vol, dead) ==
  LET vol == RSub(smp.vol, I(dead))
  IN  [ conc |-> smp.conc, vol |-> vol, full_vol |-> smp.vol,
        target_amt |-> smp.target_amt, target_vol |-> smp.target_vol,
        src_well |-> smp.src_well, dst_well |-> smp.dst_well,
        target_conc |-> RDiv(smp.target_amt, smp.target_vol),
        min_transfer_amt |-> RMul(RMin(vol, zika_min_vol), smp.conc),
        max_transfer_amt |-> RMul(RMin(vol, smp.target_vol), smp.conc) ]

\* line 427-429: deviating by 0.5 % or more from the target amount
Deviates(final_amt, target_amt) ==
  LET amt_frac == RDiv(final_amt, target_amt)
      diff == RSub(amt_frac, I(1))
  IN  RLe(<<1, 200>>, IF diff[1] < 0 THEN <<-diff[1], diff[2]>> ELSE diff)

\* line 387-448: one sample
SolveSample(r, volume_expansion, zika_min_vol) ==
  LET case == NormCase(r)
      sample_vol == SampleVol(r, case, zika_min_vol)
      tot_vol == TotVol(r, case, volume_expansion, sample_vol)
      buffer_vol == BufferVol(r, case, sample_vol, tot_vol)
      final_amt == RMul(sample_vol, r.conc)
  IN  [ case |-> case,
        vol |-> r.vol,
        sample_vol |-> sample_vol,
        buffer_vol |-> buffer_vol,
        tot_vol |-> tot_vol,
        final_amt |-> final_amt,
        entries |-> IF Deviates(final_amt, r.target_amt)
                    THEN << <<"WARNING:", "Sample">>, <<"Transferring">> >>
                    ELSE << <<"Sample normalized">> >>,
        udf |-> [ amount_taken |-> Round2(final_amt),
                  total_volume |-> Round2(tot_vol),
                  target_amount |-> IF RLt(final_amt, r.target_amt)
                                    THEN Round2(final_amt) ELSE r.target_amt ] ]

(***************************************************************************)
(* zika_utils.resolve_buffer_transfers                                     *)
(***************************************************************************)
zika_max_vol == 5
buffer_well_max_vol == 180
buffer_plate_rows == 8
buffer_plate_cols == 12

\* line 254-262: one row per transfer, the sample rows and then the buffer rows
Melt(df, src_type) ==
  [k \in DOMAIN df |->
     [sample |-> k,
      src_type |-> src_type,
      src_name |-> "src", src_well |-> df[k].src_well,
      dst_name |-> "dst", dst_well |-> df[k].dst_well,
      transfer_vol |-> IF src_type = "sample" THEN df[k].sample_vol
                       ELSE df[k].buffer_vol]]

\* line 272: zero-volume transfers are removed
PositiveRows(df) == SelectSeq(df, LAMBDA r : RLt(I(0), r.transfer_vol))

\* line 286: x[0:-1] + "1" on the well name "R:c"
FirstColumnWell(well) == <<well[1], IF well[2] < 10 THEN 1 ELSE 11>>

\* line 293-297: the k-th well of the iterator
BufferWell(k) == <<((k - 1) % buffer_plate_rows) + 1, ((k - 1) \div buffer_plate_rows) + 1>>

\* line 307-309
VolToAdd(transfer_vol) ==
  LET n_transfers == RFloor(RDiv(transfer_vol, I(zika_max_vol))) + 1
  IN  RAdd(transfer_vol, RMul(<<1, 5>>, I(n_transfers)))

\* line 305-316: the well and its tracked volume after one buffer row
FillStep(row, current_well, current_well_vol, dead) ==
  LET vol_to_add == VolToAdd(row.transfer_vol)
      next == RLt(I(buffer_well_max_vol), RAdd(current_well_vol, vol_to_add))
  IN  [current_well |-> IF next THEN current_well + 1 ELSE current_well,
       current_well_vol |-> RAdd(IF next THEN I(dead) ELSE current_well_vol, vol_to_add)]

\* line 305-321: the rows with the source wells of their buffer rows, from
\* the current well and its volume on; not ok when the iterator is exhausted
RECURSIVE FillWells(_, _, _, _)
FillWells(df, well, current_well_vol, dead) ==
  IF df = <<>> THEN [ok |-> TRUE, df |-> <<>>]
  ELSE IF Head(df).src_type # "buffer"
  THEN LET rest == FillWells(Tail(df), well, current_well_vol, dead)
       IN  [ok |-> rest.ok, df |-> <<Head(df)>> \o rest.df]
  ELSE LET st == FillStep(Head(df), well, current_well_vol, dead)
       IN  IF st.current_well > buffer_plate_rows * buffer_plate_cols
           THEN [ok |-> FALSE, df |-> <<>>]
           ELSE LET rest == FillWells(Tail(df), st.current_well, st.current_well_vol, dead)
                IN  [ok |-> rest.ok,
                     df |-> << [Head(df) EXCEPT !.src_well = BufferWell(st.current_well)] >>
                              \o rest.df]

\* line 278: the buffer transfers are drawn from the buffer plate
NameBufferPlate(df) ==
  [k \in DOMAIN df |->
     IF df[k].src_type = "buffer" THEN [df[k] EXCEPT !.src_name = "buffer_plate"]
     ELSE df[k]]

\* line 284-286
FirstColumn(df) ==
  [k \in DOMAIN df |->
     IF df[k].src_type = "buffer" THEN [df[k] EXCEPT !.src_well = FirstColumnWell(@)]
     ELSE df[k]]

\* line 254-278: one row per transfer, sorted, without the empty transfers
MeltedRows(df) ==
  NameBufferPlate(PositiveRows(SortRows(Melt(df, "sample") \o Melt(df, "buffer"))))

\* line 240-328
resolve_buffer_transfers(df, buffer_strategy) ==
  IF buffer_strategy = "first_column"
  THEN [ok |-> TRUE, df |-> FirstColumn(MeltedRows(df))]
  ELSE FillWells(MeltedRows(df), 1, I(well_dead_vol), well_dead_vol)

(***************************************************************************)
(* Inputs of norm()                                                        *)
(***************************************************************************)
MaxNormSamples == 2

\* Concentration, Volume (ul), Target Amount (ng), Target Total Volume (uL)
NormSampleTypes ==
  { [conc |-> I(10), vol |-> I(25), target_amt |-> I(100), target_vol |-> I(20)],
    [conc |-> I(10), vol |-> I(25), target_amt |-> I(50), target_vol |-> I(10)],
    [conc |-> I(100), vol |-> I(25), target_amt |-> I(10), target_vol |-> I(5)],
    [conc |-> I(100), vol |-> I(25), target_amt |-> I(5), target_vol |-> I(5)],
    [conc |-> I(100), vol |-> I(25), target_amt |-> I(1), target_vol |-> I(5)],
    [conc |-> I(10), vol |-> I(25), target_amt |-> I(1000), target_vol |-> I(10)],
    [conc |-> I(10), vol |-> I(8), target_amt |-> I(100), target_vol |-> I(5)],
    [conc |-> I(100), vol |-> <<101, 20>>, target_amt |-> I(2), target_vol |-> I(5)],
    [conc |-> I(10), vol |-> I(4), target_amt |-> I(10), target_vol |-> I(5)],
    [conc |-> I(10), vol |-> I(25), target_amt |-> I(0), target_vol |-> I(5)],
    [conc |-> I(100), vol |-> I(25), target_amt |-> I(40), target_vol |-> <<2, 5>>] }

NormOptions ==
  [ local_data : BOOLEAN, volume_expansion : BOOLEAN, multi_aspirate : BOOLEAN,
    buffer_strategy : {"first_column", "adaptive"},
    zika_min_vol : { <<1, 10>>, <<1, 2>> } ]

NormSamples(n) ==
  { [k \in 1..n |-> t[k] @@ [src_well |-> <<k, 1>>, dst_well |-> <<k, 1>>]] :
      t \in [1..n -> NormSampleTypes] }

NormInputs ==
  { [opt |-> o, samples |-> smp] :
      o \in NormOptions, smp \in UNION { NormSamples(n) : n \in 1..MaxNormSamples } }

norm_deck == [buffer_plate |-> 2, src |-> 3, dst |-> 4]

\* line 359
NormAllAccessible(samples, dead) ==
  \A k \in DOMAIN samples : RLt(I(dead), samples[k].vol)

\* line 365
NormTargetsPositive(samples) ==
  \A k \in DOMAIN samples : RLt(I(0), samples[k].target_amt)

\* lines 317-383
norm_fetch ==
  /\ method = "norm" /\ pc = "fetch"
  /\ log' = << <<"Expand volume to obtain target conc">> >>
  /\ IF NormAllAccessible(inp.samples, well_dead_vol) /\ NormTargetsPositive(inp.samples)
     THEN /\ pc' = "samples"
          /\ i' = 1
          /\ UNCHANGED exit_code
     ELSE /\ Raise
          /\ UNCHANGED i
  /\ UNCHANGED <<compared, method, inp, sample_rows, manifests, res, solved, df_wl, buffer_vols, df_formatted, events>>

\* lines 387-448, one sample
norm_iteration ==
  /\ method = "norm" /\ pc = "samples" /\ i <= Len(inp.samples)
  /\ LET r == NormRow(inp.samples[i], inp.opt.zika_min_vol, well_dead_vol)
     IN  IF DilutionFits(r, NormCase(r), inp.opt.volume_expansion, norm_well_max_vol)
         THEN LET sol == SolveSample(r, inp.opt.volume_expansion, inp.opt.zika_min_vol)
              IN  /\ log' = log \o sol.entries
                  /\ solved' = Append(solved, sol)
                  /\ events' = IF inp.opt.local_data THEN events
                               ELSE Append(events,
                                      [op |-> "put", item |-> i, udf |-> sol.udf])
                  /\ i' = i + 1
                  /\ UNCHANGED <<pc, exit_code>>
         ELSE /\ Raise
              /\ UNCHANGED <<log, events, solved, i>>
  /\ UNCHANGED <<compared, method, inp, sample_rows, manifests, res, df_wl, buffer_vols, df_formatted>>

\* lines 450-454
norm_resolve ==
  /\ method = "norm" /\ pc = "samples" /\ i > Len(inp.samples)
  /\ log' = Append(log, <<"Done.">>)
  /\ LET df == [k \in DOMAIN solved |->
                  [src_well |-> inp.samples[k].src_well,
                   dst_well |-> inp.samples[k].dst_well,
                   sample_vol |-> solved[k].sample_vol,
                   buffer_vol |-> solved[k].buffer_vol]]
         resolved == resolve_buffer_transfers(df, inp.opt.buffer_strategy)
     IN  IF resolved.ok
         THEN /\ df_wl' = resolved.df
              /\ pc' = "format"
              /\ UNCHANGED exit_code
         ELSE /\ Raise
              /\ UNCHANGED df_wl
  /\ UNCHANGED <<compared, method, inp, sample_rows, manifests, res, i, solved, buffer_vols, df_formatted, events>>

\* line 457
norm_format ==
  /\ method = "norm" /\ pc = "format"
  /\ LET f == format_worklist(df_wl, norm_deck)
     IN  IF f.ok
         THEN /\ df_formatted' = f.df
              /\ pc' = "write_worklist"
              /\ UNCHANGED exit_code
         ELSE /\ Raise
              /\ UNCHANGED df_formatted
  /\ UNCHANGED <<compared, method, inp, sample_rows, manifests, res, i, log, solved, df_wl, buffer_vols, events>>

\* lines 459-475
norm_write_worklist ==
  /\ method = "norm" /\ pc = "write_worklist"
  /\ events' = Append(events,
                 [op |-> "write_worklist", rows |-> df_formatted,
                  buffer_comments |-> {}])
  /\ pc' = "write_log"
  /\ UNCHANGED <<compared, method, inp, sample_rows, manifests, res, i, log, solved, df_wl, buffer_vols, df_formatted, exit_code>>

\* line 477, and the return of a run on local data (line 480)
norm_write_log ==
  /\ method = "norm" /\ pc = "write_log"
  /\ events' = Append(events, [op |-> "write_log", log |-> log])
  /\ IF inp.opt.local_data
     THEN pc' = "done" /\ exit_code' = 0
     ELSE pc' = "upload_csv" /\ UNCHANGED exit_code
  /\ UNCHANGED <<compared, method, inp, sample_rows, manifests, res, i, log, solved, df_wl, buffer_vols, df_formatted>>

\* line 481
norm_upload_csv ==
  /\ method = "norm" /\ pc = "upload_csv"
  /\ events' = Append(events, [op |-> "upload_csv"])
  /\ pc' = "upload_log"
  /\ UNCHANGED <<compared, method, inp, sample_rows, manifests, res, i, log, solved, df_wl, buffer_vols, df_formatted, exit_code>>

\* line 482
norm_upload_log ==
  /\ method = "norm" /\ pc = "upload_log"
  /\ events' = Append(events, [op |-> "upload_log"])
  /\ pc' = "warnings"
  /\ UNCHANGED <<compared, method, inp, sample_rows, manifests, res, i, log, solved, df_wl, buffer_vols, df_formatted, exit_code>>

\* lines 484-489
norm_exit ==
  /\ method = "norm" /\ pc = "warnings"
  /\ exit_code' = ExitCode(log)
  /\ pc' = "done"
  /\ UNCHANGED <<compared, method, inp, sample_rows, manifests, res, i, log, solved, df_wl, buffer_vols, df_formatted, events>>

InitNorm ==
  /\ method = "norm"
  /\ pc = "fetch"
  /\ inp \in NormInputs
  /\ i = 0
  /\ log = <<>>
  /\ solved = <<>>
  /\ sample_rows = <<>>
  /\ manifests = <<>>
  /\ res = <<>>
  /\ df_wl = <<>>
  /\ buffer_vols = <<>>
  /\ df_formatted = <<>>
  /\ events = <<>>
  /\ exit_code = -1
  /\ compared = <<>>

NextNorm ==
  \/ norm_fetch
  \/ norm_iteration
  \/ norm_resolve
  \/ norm_format
  \/ norm_write_worklist
  \/ norm_write_log
  \/ norm_upload_csv
  \/ norm_upload_log
  \/ norm_exit

SpecNorm == InitNorm /\ [][NextNorm]_vars

(***************************************************************************)
(* pool() and norm() together                                              *)
(***************************************************************************)
InitZika == InitPool \/ InitNorm

NextZika == NextPool \/ NextNorm

SpecZika == InitZika /\ [][NextZika]_vars

(***************************************************************************)
(* generate_aviti_run_manifest.py                                          *)
(* A string is a sequence of one-character strings.                        *)
(***************************************************************************)
Bases == {"A", "C", "G", "T"}

\* a translation table that writes U for the complement of A
Complement_rna(c) ==
  CASE c = "A" -> "U" [] c = "C" -> "G" [] c = "G" -> "C" [] c = "T" -> "A"
    [] OTHER -> c

\* line 72: str.translate leaves every other character as it is
Complement(c) ==
  CASE c = "A" -> "T" [] c = "C" -> "G" [] c = "G" -> "C" [] c = "T" -> "A"
    [] OTHER -> c

Reverse(seq) == [k \in 1..Len(seq) |-> seq[Len(seq) + 1 - k]]

\* a revcomp that only reverses
revcomp_reversed_only(seq) == Reverse(seq)

\* line 70-72
revcomp(seq) == Reverse([k \in 1..Len(seq) |-> Complement(seq[k])])

\* a regular expression of single characters: a sequence of items, each a set
\* of characters that may be optional; the end of the match at p, 0 if none
RECURSIVE MatchEnd(_, _, _, _)
MatchEnd(label, p, pat, k) ==
  IF k > Len(pat) THEN p
  ELSE LET here == IF p <= Len(label) /\ label[p] \in pat[k].set
                   THEN MatchEnd(label, p + 1, pat, k + 1) ELSE 0
       IN  IF here # 0 THEN here
           ELSE IF pat[k].opt THEN MatchEnd(label, p, pat, k + 1) ELSE 0

One(set) == [set |-> set, opt |-> FALSE]
Opt(set) == [set |-> set, opt |-> TRUE]
Lit(str) == [k \in 1..Len(str) |-> One({str[k]})]

\* pat.findall(label)[0]: the text of the leftmost match, <<>> when none
RECURSIVE FindFrom(_, _, _)
FindFrom(label, pat, p) ==
  IF p > Len(label) THEN <<>>
  ELSE LET e == MatchEnd(label, p, pat, 1)
       IN  IF e # 0 THEN SubSeq(label, p, e - 1) ELSE FindFrom(label, pat, p + 1)

\* the leftmost match of an alternation of patterns of equal length
RECURSIVE FindAnyFrom(_, _, _)
FindAnyFrom(label, pats, p) ==
  IF p > Len(label) THEN <<>>
  ELSE LET hits == { k \in DOMAIN pats : MatchEnd(label, p, pats[k], 1) # 0 }
       IN  IF hits # {}
           THEN LET k == CHOOSE x \in hits : \A y \in hits : x <= y
                IN  SubSeq(label, p, MatchEnd(label, p, pats[k], 1) - 1)
           ELSE FindAnyFrom(label, pats, p + 1)

Digits19 == {"1", "2", "3", "4", "5", "6", "7", "8", "9"}
LettersAH == {"A", "B", "C", "D", "E", "F", "G", "H"}
LettersAP == LettersAH \cup {"I", "J", "K", "L", "M", "N", "O", "P"}

\* the tail [A-H][1-9][0-2]? of the two 10X patterns
TenXWell == <<One(LettersAH), One(Digits19), Opt({"0", "1", "2"})>>

\* line 27: SI-(?:GA|NA)-[A-H][1-9][0-2]?
TENX_SINGLE_PAT ==
  << Lit(<<"S", "I", "-", "G", "A", "-">>) \o TenXWell,
     Lit(<<"S", "I", "-", "N", "A", "-">>) \o TenXWell >>

\* line 28: SI-(?:TT|NT|NN|TN|TS)-[A-H][1-9][0-2]?
TENX_DUAL_PAT ==
  << Lit(<<"S", "I", "-", "T", "T", "-">>) \o TenXWell,
     Lit(<<"S", "I", "-", "N", "T", "-">>) \o TenXWell,
     Lit(<<"S", "I", "-", "N", "N", "-">>) \o TenXWell,
     Lit(<<"S", "I", "-", "T", "N", "-">>) \o TenXWell,
     Lit(<<"S", "I", "-", "T", "S", "-">>) \o TenXWell >>

\* line 29: SMARTSEQ[1-9]?-[1-9][0-9]?[A-P]
SMARTSEQ_PAT ==
  Lit(<<"S", "M", "A", "R", "T", "S", "E", "Q">>)
  \o <<Opt(Digits19), One({"-"}), One(Digits19), Opt(Digits19 \cup {"0"}),
       One(LettersAP)>>

\* the length of the run of characters of set that starts at p
RECURSIVE RunLen(_, _, _)
RunLen(label, p, set) ==
  IF p <= Len(label) /\ label[p] \in set THEN 1 + RunLen(label, p + 1, set) ELSE 0

min_idx_len == 4

\* line 26: ([ATCG]{4,}N*)-?([ATCG]*) matched at p: the two groups and whether
\* the dash was consumed
IdxMatchAt(label, p) ==
  LET n1 == RunLen(label, p, Bases)
      nN == RunLen(label, p + n1, {"N"})
      q == p + n1 + nN
      dash == q <= Len(label) /\ label[q] = "-"
      q2 == IF dash THEN q + 1 ELSE q
      n2 == RunLen(label, q2, Bases)
  IN  [ found |-> n1 >= min_idx_len,
        g1 |-> SubSeq(label, p, q - 1),
        dash |-> dash,
        g2 |-> SubSeq(label, q2, q2 + n2 - 1) ]

\* IDX_PAT.findall(label): the leftmost match
RECURSIVE IdxFindFrom(_, _)
IdxFindFrom(label, p) ==
  IF p > Len(label) THEN [found |-> FALSE, g1 |-> <<>>, dash |-> FALSE, g2 |-> <<>>]
  ELSE IF IdxMatchAt(label, p).found THEN IdxMatchAt(label, p)
  ELSE IdxFindFrom(label, p + 1)

\* str.upper on the characters the labels hold
Upper(c) ==
  CASE c = "o" -> "O" [] c = "n" -> "N" [] c = "d" -> "D" [] c = "e" -> "E"
    [] c = "x" -> "X" [] c = "i" -> "I" [] OTHER -> c

\* label.replace(",", "").upper()
RECURSIVE StripCommasUpper(_)
StripCommasUpper(label) ==
  IF label = <<>> THEN <<>>
  ELSE (IF Head(label) = "," THEN <<>> ELSE <<Upper(Head(label))>>)
       \o StripCommasUpper(Tail(label))

\* line 101-103
IsNoIndex(label) ==
  StripCommasUpper(label) \in { <<"N", "O", "I", "N", "D", "E", "X">>, <<>> }

\* the lookup tables data/Chromium_10X_indexes and SMARTSEQ3_indexes.json,
\* which are data of the repository: one well of each kind
Chromium_10X_indexes(match) ==
  IF match[4] \in {"G"} \/ SubSeq(match, 4, 5) = <<"N", "A">>
  THEN << <<"G", "G", "T", "T">>, <<"C", "T", "A", "A">>,
          <<"T", "C", "G", "G">>, <<"A", "A", "C", "C">> >>
  ELSE << <<"G", "T", "A", "A", "C">>, <<"A", "G", "T", "G", "T">> >>

SMARTSEQ3_INDEXES(match) ==
  << << <<"C", "A", "T", "T">>, <<"T", "G", "C", "C">> >>,
     << <<"A", "A", "G", "T">>, <<"C", "C", "T", "A">> >> >>

\* an element of the list idxs: a str, or a tuple of two str
Str(seq) == [kind |-> "str", v |-> seq]
Tuple(a, b) == [kind |-> "tuple", v |-> <<a, b>>]

\* line 84-115 with the 10X dual grammar tried before the 10X single one
Classify_dual_first(label) ==
  IF FindAnyFrom(label, TENX_DUAL_PAT, 1) # <<>> THEN "tenx_dual"
  ELSE IF FindAnyFrom(label, TENX_SINGLE_PAT, 1) # <<>> THEN "tenx_single"
  ELSE IF FindFrom(label, SMARTSEQ_PAT, 1) # <<>> THEN "smartseq"
  ELSE IF IsNoIndex(label) THEN "noindex"
  ELSE IF IdxFindFrom(label, 1).found THEN "generic"
  ELSE "none"

\* line 84, 89, 95, 101, 106, 114: the branch of the if/elif chain taken
Classify(label) ==
  IF FindAnyFrom(label, TENX_SINGLE_PAT, 1) # <<>> THEN "tenx_single"
  ELSE IF FindAnyFrom(label, TENX_DUAL_PAT, 1) # <<>> THEN "tenx_dual"
  ELSE IF FindFrom(label, SMARTSEQ_PAT, 1) # <<>> THEN "smartseq"
  ELSE IF IsNoIndex(label) THEN "noindex"
  ELSE IF IdxFindFrom(label, 1).found THEN "generic"
  ELSE "none"

\* line 107: match is the tuple of the two groups of IDX_PAT
Groups(m) == << m.g1, m.g2 >>

GenericMatch(label) == Groups(IdxFindFrom(label, 1))

\* line 112-113: the match itself is appended
GenericEntry(match) == Tuple(match[1], match[2])

\* line 108: '"-" in match' asks whether one of the two groups is the string "-"
DashInMatch(match) == \E k \in DOMAIN match : match[k] = <<"-">>

\* line 84-115: the error raised ("" when none) and the list idxs of a branch
BranchIdxs(label, branch) ==
  CASE branch = "tenx_single" ->
         LET t == Chromium_10X_indexes(FindAnyFrom(label, TENX_SINGLE_PAT, 1))
         IN  [branch |-> branch, error |-> "", idxs |-> Map(Str, t)]
    [] branch = "tenx_dual" ->
         LET t == Chromium_10X_indexes(FindAnyFrom(label, TENX_DUAL_PAT, 1))
         IN  [branch |-> branch, error |-> "",
              idxs |-> << Tuple(t[1], revcomp(t[2])) >>]
    [] branch = "smartseq" ->
         LET t == SMARTSEQ3_INDEXES(FindFrom(label, SMARTSEQ_PAT, 1))
         IN  [branch |-> branch, error |-> "",
              idxs |-> [k \in 1..(Len(t[1]) * Len(t[2])) |->
                          Tuple(t[1][((k - 1) \div Len(t[2])) + 1],
                                revcomp(t[2][((k - 1) % Len(t[2])) + 1]))]]
    [] branch = "noindex" ->
         [branch |-> branch, error |-> "NoIndex cases not allowed.", idxs |-> <<>>]
    [] branch = "generic" ->
         IF DashInMatch(GenericMatch(label))
         THEN [branch |-> branch, error |-> "tuple has no split", idxs |-> <<>>]
         ELSE [branch |-> branch, error |-> "", idxs |-> << GenericEntry(GenericMatch(label)) >>]
    [] OTHER ->
         [branch |-> branch, error |-> "Could not parse index", idxs |-> <<>>]

\* line 75-116
idxs_from_label(label) == BranchIdxs(label, Classify(label))

\* line 186-192: Index1 and Index2 of the manifest row of one element of idxs
IndexColumns(idx) ==
  IF idx.kind = "tuple"
  THEN [Index1 |-> idx.v[1], Index2 |-> idx.v[2]]
  ELSE [Index1 |-> idx.v, Index2 |-> <<>>]

(***************************************************************************)
(* idxs_from_label applied to the labels built of a few fragments          *)
(***************************************************************************)
MaxFragments == 3

Fragments ==
  { <<"S", "I", "-", "G", "A", "-", "A", "1">>,
    <<"S", "I", "-", "T", "T", "-", "A", "1">>,
    <<"S", "M", "A", "R", "T", "S", "E", "Q", "-", "1", "A">>,
    <<"N", "o", "I", "n", "d", "e", "x">>,
    <<",">>, <<"-">>, <<"N">>, <<"x">>,
    <<"A", "C">>, <<"A", "C", "G", "T">>, <<"T", "T", "G", "A">> }

RECURSIVE LabelsOf(_)
LabelsOf(n) ==
  IF n = 0 THEN { <<>> }
  ELSE LabelsOf(n - 1) \cup { l \o f : l \in LabelsOf(n - 1), f \in Fragments }

Labels == LabelsOf(MaxFragments)

InitLabel ==
  /\ method = "idxs_from_label"
  /\ pc = "call"
  /\ inp \in Labels
  /\ i = 0
  /\ log = <<>>
  /\ solved = <<>>
  /\ df_wl = <<>>
  /\ buffer_vols = <<>>
  /\ df_formatted = <<>>
  /\ sample_rows = <<>>
  /\ manifests = <<>>
  /\ res = <<>>
  /\ events = <<>>
  /\ exit_code = -1
  /\ compared = <<>>

\* the call of line 185 and the rows of lines 186-192; an error is raised
\* through make_manifests
label_parse ==
  /\ method = "idxs_from_label" /\ pc = "call"
  /\ LET r == idxs_from_label(inp)
     IN  /\ res' = r
         /\ sample_rows' = [k \in DOMAIN r.idxs |-> IndexColumns(r.idxs[k])]
         /\ IF r.error = ""
            THEN pc' = "returned" /\ UNCHANGED exit_code
            ELSE Raise
  /\ UNCHANGED <<compared, method, inp, i, log, solved, df_wl, buffer_vols, df_formatted,
                 manifests, events>>

NextLabel == label_parse

SpecLabel == InitLabel /\ [][NextLabel]_vars

(***************************************************************************)
(* check_pair_distance applied to two manifest rows                        *)
(***************************************************************************)
\* Levenshtein.hamming of line 16, which pads the shorter string: the
\* mismatches of the common prefix and the difference of the lengths
distance(a, b) ==
  LET n == IF Len(a) < Len(b) THEN Len(a) ELSE Len(b)
  IN  Cardinality({ k \in 1..n : a[k] # b[k] }) + Abs(Len(a) - Len(b))

\* line 325-346: the distances of the 16 orientations
Flips(row, row_comp) ==
  { distance(a1, b1) + distance(a2, b2) :
      a1 \in {row.Index1, revcomp(row.Index1)},
      a2 \in {row.Index2, revcomp(row.Index2)},
      b1 \in {row_comp.Index1, revcomp(row_comp.Index1)},
      b2 \in {row_comp.Index2, revcomp(row_comp.Index2)} }

\* line 324-352
PairDist(row, row_comp, check_flips) ==
  IF check_flips
  THEN CHOOSE d \in Flips(row, row_comp) : \A e \in Flips(row, row_comp) : d <= e
  ELSE distance(row.Index1 \o row.Index2, row_comp.Index1 \o row_comp.Index2)

\* line 357-379: the distance, whether the warning is logged and whether the
\* identical-indices error is raised
check_pair_distance(row, row_comp, check_flips, dist_warning_threshold) ==
  LET dist == PairDist(row, row_comp, check_flips)
  IN  [ dist |-> dist,
        warned |-> dist <= dist_warning_threshold,
        raised |-> dist <= dist_warning_threshold /\ dist = 0 ]

default_dist_warning_threshold == 3

MaxIdxLen == 2
MaxThreshold == 3

\* the thresholds the calls are made with, one of them below zero
DistThresholds == -1..MaxThreshold

PairBases == {"A", "C", "T"}

RECURSIVE SeqsUpTo(_, _)
SeqsUpTo(set, n) ==
  IF n = 0 THEN { <<>> }
  ELSE SeqsUpTo(set, n - 1)
       \cup { <<c>> \o q : c \in set, q \in { x \in SeqsUpTo(set, n - 1) : Len(x) = n - 1 } }

PairRows ==
  [ Index1 : SeqsUpTo(PairBases, MaxIdxLen) \ { <<>> },
    Index2 : SeqsUpTo(PairBases, MaxIdxLen) ]

InitPair ==
  /\ method = "check_pair_distance"
  /\ pc = "call"
  /\ inp \in [ row : PairRows, row_comp : PairRows, check_flips : BOOLEAN,
               dist_warning_threshold : DistThresholds ]
  /\ i = 0
  /\ log = <<>>
  /\ solved = <<>>
  /\ df_wl = <<>>
  /\ buffer_vols = <<>>
  /\ df_formatted = <<>>
  /\ sample_rows = <<>>
  /\ manifests = <<>>
  /\ res = <<>>
  /\ events = <<>>
  /\ exit_code = -1
  /\ compared = <<>>

pair_check ==
  /\ method = "check_pair_distance" /\ pc = "call"
  /\ LET r == check_pair_distance(inp.row, inp.row_comp, inp.check_flips,
                                  inp.dist_warning_threshold)
     IN  /\ res' = r
         /\ log' = IF r.warned THEN Append(log, <<"WARNING:", "Hamming distance", r.dist>>)
                   ELSE log
         /\ IF r.raised THEN Raise ELSE pc' = "returned" /\ UNCHANGED exit_code
  /\ UNCHANGED <<compared, method, inp, i, solved, df_wl, buffer_vols, df_formatted,
                 sample_rows, manifests, events>>

NextPair == pair_check

SpecPair == InitPair /\ [][NextPair]_vars

(***************************************************************************)
(* revcomp applied to a DNA string, and again to its result                *)
(***************************************************************************)
MaxSeqLen == 4

InitRevcomp ==
  /\ method = "revcomp"
  /\ pc = "call"
  /\ inp \in SeqsUpTo(Bases, MaxSeqLen)
  /\ i = 0
  /\ log = <<>>
  /\ solved = <<>>
  /\ df_wl = <<>>
  /\ buffer_vols = <<>>
  /\ df_formatted = <<>>
  /\ sample_rows = <<>>
  /\ manifests = <<>>
  /\ res = <<>>
  /\ events = <<>>
  /\ exit_code = -1
  /\ compared = <<>>

\* line 70-72: i counts the applications, res is the last value returned
revcomp_call ==
  /\ method = "revcomp" /\ pc = "call" /\ i < 2
  /\ res' = revcomp(IF i = 0 THEN inp ELSE res)
  /\ i' = i + 1
  /\ UNCHANGED <<compared, method, pc, inp, log, solved, df_wl, buffer_vols,
                 df_formatted, sample_rows, manifests, events, exit_code>>

NextRevcomp == revcomp_call

SpecRevcomp == InitRevcomp /\ [][NextRevcomp]_vars

(***************************************************************************)
(* make_manifests and main of generate_aviti_run_manifest.py               *)
(***************************************************************************)
None == "None"

\* line 32-60
PHIX_SETS(name) ==
  CASE name = "PhiX Control Library, Adept" ->
         [ nickname |-> "PhiX_Adept",
           indices |-> <<
                    << <<"A", "T", "G", "T", "C", "G", "C", "T", "A", "G">>,
                       <<"C", "T", "A", "G", "C", "T", "C", "G", "T", "A">> >>,
                    << <<"C", "A", "C", "A", "G", "A", "T", "C", "G", "T">>,
                       <<"A", "C", "G", "A", "G", "A", "G", "T", "C", "T">> >>,
                    << <<"G", "C", "A", "C", "A", "T", "A", "G", "T", "C">>,
                       <<"G", "A", "C", "T", "A", "C", "T", "A", "G", "C">> >>,
                    << <<"T", "G", "T", "G", "T", "C", "G", "A", "C", "A">>,
                       <<"T", "G", "T", "C", "T", "G", "A", "C", "A", "G">> >> >> ]
    [] name = "Cloudbreak PhiX Control Library, Elevate" ->
         [ nickname |-> "PhiX_Elevate",
           indices |-> <<
                    << <<"A", "C", "G", "T", "G", "T", "A", "G", "C">>,
                       <<"G", "C", "T", "A", "G", "T", "G", "C", "A">> >>,
                    << <<"C", "A", "C", "A", "T", "G", "C", "T", "G">>,
                       <<"A", "G", "A", "C", "A", "C", "T", "G", "T">> >>,
                    << <<"G", "T", "A", "C", "A", "C", "G", "A", "T">>,
                       <<"C", "T", "C", "G", "T", "A", "C", "A", "G">> >>,
                    << <<"T", "G", "T", "G", "C", "A", "T", "C", "A">>,
                       <<"T", "A", "G", "T", "C", "G", "A", "T", "C">> >> >> ]
    [] name = "Cloudbreak Freestyle PhiX Control, Third Party" ->
         [ nickname |-> "PhiX_Third",
           indices |-> <<
                    << <<"A", "T", "G", "T", "C", "G", "C", "T", "A", "G">>,
                       <<"C", "T", "A", "G", "C", "T", "C", "G", "T", "A">> >>,
                    << <<"C", "A", "C", "A", "G", "A", "T", "C", "G", "T">>,
                       <<"A", "C", "G", "A", "G", "A", "G", "T", "C", "T">> >>,
                    << <<"G", "C", "A", "C", "A", "T", "A", "G", "T", "C">>,
                       <<"G", "A", "C", "T", "A", "C", "T", "A", "G", "C">> >>,
                    << <<"T", "G", "T", "G", "T", "C", "G", "A", "C", "A">>,
                       <<"T", "G", "T", "C", "T", "G", "A", "C", "A", "G">> >> >> ]

PhixSetNames ==
  { "PhiX Control Library, Adept", "Cloudbreak PhiX Control Library, Elevate",
    "Cloudbreak Freestyle PhiX Control, Third Party" }

\* line 285-299 as make_manifests calls it, without seq_extension
fit_seq(seq, length) ==
  IF Len(seq) = length THEN [ok |-> TRUE, seq |-> seq]
  ELSE IF Len(seq) > length THEN [ok |-> TRUE, seq |-> SubSeq(seq, 1, length)]
  ELSE [ok |-> FALSE, seq |-> <<>>]

\* the elements of a finite set in ascending order of the total order Less
Sorted(S, Less(_, _)) ==
  [ k \in 1..Cardinality(S) |->
      CHOOSE x \in S : Cardinality({ y \in S : Less(y, x) }) = k - 1 ]

\* the order of the lane strings "1", "2", "3"
LaneOrd(l) == CASE l = "1" -> 1 [] l = "2" -> 2 [] OTHER -> 3

LaneLess(a, b) == LaneOrd(a) < LaneOrd(b)

\* the order of the groupby keys (len_idx1, len_idx2, Lane)
KeyLess(a, b) ==
  \/ a[1] < b[1]
  \/ a[1] = b[1] /\ a[2] < b[2]
  \/ a[1] = b[1] /\ a[2] = b[2] /\ LaneLess(a[3], b[3])

\* line 210-212 and 245-247: the keys of the groups in the order of groupby
GroupKeys(rows) ==
  Sorted({ <<rows[k].len_idx1, rows[k].len_idx2, rows[k].Lane>> : k \in DOMAIN rows },
         KeyLess)

GroupOf(rows, key) ==
  SelectSeq(rows, LAMBDA r : <<r.len_idx1, r.len_idx2, r.Lane>> = key)

\* line 177: name.replace(".", "__").replace(",", "")
RECURSIVE ProjectName(_)
ProjectName(name) ==
  IF name = <<>> THEN <<>>
  ELSE (CASE Head(name) = "." -> <<"_", "_">> [] Head(name) = "," -> <<>>
          [] OTHER -> <<Head(name)>>)
       \o ProjectName(Tail(name))

\* line 186-197: the row of one index of a sample
SampleRow(pool, sample, name, cols) ==
  [ SampleName |-> name,
    Index1 |-> cols.Index1,
    Index2 |-> cols.Index2,
    Lane |-> pool.lane,
    Project |-> IF sample.project # <<>> THEN ProjectName(sample.project)
                ELSE <<"C", "o", "n", "t", "r", "o", "l">>,
    Recipe |-> IF sample.project # <<>> THEN sample.seq_setup ELSE "0-0",
    phix_loaded |-> pool.phix # 0,
    phix_set_name |-> pool.phix_set,
    len_idx1 |-> Len(cols.Index1),
    len_idx2 |-> Len(cols.Index2) ]

RowsOfIdxs(pool, sample, name, r) ==
  [ error |-> r.error,
    rows |-> [ k \in DOMAIN r.idxs |->
                 SampleRow(pool, sample, name, IndexColumns(r.idxs[k])) ] ]

\* line 174-199: the rows of one sample, and the error of its label
SampleRows(pool, sample, name) ==
  RowsOfIdxs(pool, sample, name, idxs_from_label(sample.label))

\* line 159-171: the assertions on one pool, "" when they pass
PoolError(pool) ==
  IF \E a, b \in DOMAIN pool.samples : a # b /\ pool.samples[a].label = pool.samples[b].label
  THEN "Detected non-unique reagent labels."
  ELSE IF pool.phix # 0 /\ pool.phix_set = None
  THEN "PhiX controls loaded but no kit specified."
  ELSE IF pool.phix = 0 /\ pool.phix_set # None
  THEN "PhiX controls specified but not loaded."
  ELSE ""

\* line 213-229: one group with its PhiX rows
AddPhix(group, key) ==
  IF ~\E k \in DOMAIN group : group[k].phix_loaded
  THEN [error |-> "", rows |-> group]
  ELSE LET phix_set_name == group[1].phix_set_name IN
       IF phix_set_name \notin PhixSetNames
       THEN [error |-> "KeyError", rows |-> <<>>]
       ELSE LET phix_set == PHIX_SETS(phix_set_name)
                fits == \A k \in DOMAIN phix_set.indices :
                          /\ fit_seq(phix_set.indices[k][1], key[1]).ok
                          /\ fit_seq(phix_set.indices[k][2], key[2]).ok
            IN  IF ~fits
                THEN [error |-> "Can't extend sequence without extension string.",
                      rows |-> <<>>]
                ELSE [error |-> "",
                      rows |-> group \o [ k \in DOMAIN phix_set.indices |->
                        [ SampleName |-> phix_set.nickname,
                          Index1 |-> fit_seq(phix_set.indices[k][1], key[1]).seq,
                          Index2 |-> fit_seq(phix_set.indices[k][2], key[2]).seq,
                          Lane |-> group[1].Lane,
                          Project |-> <<"C", "o", "n", "t", "r", "o", "l">>,
                          Recipe |-> "0-0",
                          len_idx1 |-> key[1],
                          len_idx2 |-> key[2] ] ]]

\* line 209-235: the groups in key order, up to the first that fails
RECURSIVE AddPhixAll(_, _, _)
AddPhixAll(rows, keys, acc) ==
  IF keys = <<>> THEN [error |-> "", rows |-> acc]
  ELSE LET g == AddPhix(GroupOf(rows, Head(keys)), Head(keys))
       IN  IF g.error # "" THEN [error |-> g.error, rows |-> <<>>]
           ELSE AddPhixAll(rows, Tail(keys), acc \o g.rows)

\* the pairs (a, b) with a < b <= n in the order of the loops of line 303-306
PairsBefore(a, n) == ((a - 1) * (2 * n - a)) \div 2

PairAt(k, a, n) == << a, a + k - PairsBefore(a, n) >>

\* only the neighbouring rows
PairsAdjacent(n) == [ k \in 1..(n - 1) |-> << k, k + 1 >> ]

PairsInOrder(n) ==
  [ k \in 1..PairsBefore(n, n) |->
      PairAt(k, CHOOSE a \in 1..(n - 1) : PairsBefore(a, n) < k /\ k <= PairsBefore(a + 1, n), n) ]

\* line 306-309: check_pair_distance on every pair of the double loop
PairResults(rows, pairs, dist_warning_threshold) ==
  [ k \in DOMAIN pairs |->
      check_pair_distance(rows[pairs[k][1]], rows[pairs[k][2]], FALSE,
                          dist_warning_threshold) ]

\* line 357-376: the warnings of the pairs 1..stop, in the order of the loops
WarnEntries(rows, pairs, results, stop) ==
  LET warned == SelectSeq([k \in 1..stop |-> k], LAMBDA k : results[k].warned)
  IN  [ j \in DOMAIN warned |->
          << "WARNING:", "Hamming distance", results[warned[j]].dist,
             rows[pairs[warned[j]][1]].SampleName,
             rows[pairs[warned[j]][2]].SampleName >> ]

\* line 303-309: the loops stop at the first pair that raises, after its warning
CheckPairsStop(rows, pairs, results, stop, raised, entries) ==
  [ raised |-> raised,
    entries |-> entries \o WarnEntries(rows, pairs, results, stop),
    calls |-> SubSeq(pairs, 1, stop) ]

CheckPairsUpTo(rows, pairs, results, raising, entries) ==
  IF raising = {}
  THEN CheckPairsStop(rows, pairs, results, Len(pairs), FALSE, entries)
  ELSE CheckPairsStop(rows, pairs, results,
                      CHOOSE k \in raising : \A j \in raising : k <= j, TRUE, entries)

CheckPairsOf(rows, pairs, results, entries) ==
  CheckPairsUpTo(rows, pairs, results,
                 { k \in DOMAIN pairs : results[k].raised }, entries)

CheckPairs(rows, pairs, dist_warning_threshold, entries) ==
  CheckPairsOf(rows, pairs, PairResults(rows, pairs, dist_warning_threshold), entries)

\* check_distances that warns and never raises
check_distances_warn_only(rows) ==
  [ CheckPairs(rows, PairsInOrder(Len(rows)), default_dist_warning_threshold, <<>>)
      EXCEPT !.raised = FALSE ]

\* line 302-309: the warnings logged and whether a pair raised
check_distances(rows) ==
  CheckPairs(rows, PairsInOrder(Len(rows)), default_dist_warning_threshold, <<>>)

\* line 238-240: check_distances per lane, up to the first lane that raises
\* line 237-238: the positions in df_samples_and_controls of the rows of a lane
LanePositions(rows, lane) ==
  SelectSeq([k \in DOMAIN rows |-> k], LAMBDA k : rows[k].Lane = lane)

\* the calls of check_distances on a lane, by the positions of the two rows
CallsOf(positions, calls) ==
  [ j \in DOMAIN calls |-> << positions[calls[j][1]], positions[calls[j][2]] >> ]

RECURSIVE CheckLanes(_, _, _, _)
CheckLanes(rows, lanes, entries, calls) ==
  IF lanes = <<>> THEN [raised |-> FALSE, entries |-> entries, calls |-> calls]
  ELSE LET c == check_distances(SelectSeq(rows, LAMBDA r : r.Lane = Head(lanes)))
           made == calls \o CallsOf(LanePositions(rows, Head(lanes)), c.calls)
       IN  IF c.raised
           THEN [raised |-> TRUE, entries |-> entries \o c.entries, calls |-> made]
           ELSE CheckLanes(rows, Tail(lanes), entries \o c.entries, made)

\* the decimal digits of n, the text the file names are sorted by
FileDigits(n) == IF n < 10 THEN <<n>> ELSE <<n \div 10, n % 10>>

FileLess(a, b) ==
  LET x == FileDigits(a.n)
      y == FileDigits(b.n)
  IN  \/ x[1] < y[1]
      \/ x[1] = y[1] /\ Len(x) < Len(y)
      \/ x[1] = y[1] /\ Len(x) = 2 /\ Len(y) = 2 /\ x[2] < y[2]

\* group.iloc[:, 0:6] of line 270
ManifestColumns(r) ==
  [ SampleName |-> r.SampleName, Index1 |-> r.Index1, Index2 |-> r.Index2,
    Lane |-> r.Lane, Project |-> r.Project, Recipe |-> r.Recipe ]

\* every row in one file, named after the group of the first row
BuildManifests_one_file(rows) ==
  << [ n |-> 0,
       manifest_group |-> <<1, 1>>,
       grouped_by |-> <<rows[1].len_idx1, rows[1].len_idx2, rows[1].Lane>>,
       samples |-> [ j \in DOMAIN rows |-> ManifestColumns(rows[j]) ] ] >>

\* line 243-280: one manifest per group, sorted by file name
BuildManifests(rows) ==
  LET keys == GroupKeys(rows)
  IN  Sorted({ [ n |-> k - 1,
                 manifest_group |-> <<k, Len(keys)>>,
                 grouped_by |-> keys[k],
                 samples |-> LET g == GroupOf(rows, keys[k])
                             IN  [ j \in DOMAIN g |-> ManifestColumns(g[j]) ] ]
               : k \in DOMAIN keys },
             FileLess)

RECURSIVE Flatten(_)
Flatten(ss) == IF ss = <<>> THEN <<>> ELSE Head(ss) \o Flatten(Tail(ss))

(***************************************************************************)
(* The run of main(): the process is the output analytes (pools) of the    *)
(* step, each with its container name, lane, samples and PhiX UDFs.        *)
(***************************************************************************)
MaxManifestSamples == 2

ManifestLabels ==
  { <<"A", "C", "G", "T", "-", "A", "A", "C", "C">>,
    <<"A", "C", "G", "A", "-", "A", "A", "C", "C">>,
    <<"A", "C", "G", "T", "A", "C", "G", "T", "A", "C">>,
    <<"N", "o", "I", "n", "d", "e", "x">>,
    <<"x", "x">>,
    <<"S", "I", "-", "G", "A", "-", "A", "1">>,
    <<"A", "T", "G", "T", "-", "C", "T", "A", "G">> }

ManifestSamples ==
  { [label |-> l, project |-> <<"P", ".", "1">>, seq_setup |-> "151-151"] :
      l \in ManifestLabels }
  \cup { [label |-> <<"A", "C", "G", "T", "-", "A", "A", "C", "C">>,
          project |-> <<>>, seq_setup |-> "0-0"] }

PhixOptions ==
  { [phix |-> 0, phix_set |-> None],
    [phix |-> 1, phix_set |-> "PhiX Control Library, Adept"],
    [phix |-> 1, phix_set |-> "Cloudbreak PhiX Control Library, Elevate"],
    [phix |-> 1, phix_set |-> None],
    [phix |-> 0, phix_set |-> "PhiX Control Library, Adept"] }

SampleSeqs(lo, hi) ==
  UNION { [1..n -> ManifestSamples] : n \in lo..hi }

Pool(lane, samples, ph) ==
  [lane |-> lane, samples |-> samples, phix |-> ph.phix, phix_set |-> ph.phix_set]

\* one analyte, in lane 1 or in lane 2
OnePool ==
  { << Pool(lane, ss, ph) >> :
      lane \in {"1", "2"}, ss \in SampleSeqs(1, MaxManifestSamples), ph \in PhixOptions }

\* the PhiX UDFs of two analytes: the same on both, or loaded on one only,
\* or of two kits
PhixPairs ==
  { <<ph, ph>> : ph \in PhixOptions }
  \cup { << [phix |-> 0, phix_set |-> None],
            [phix |-> 1, phix_set |-> "PhiX Control Library, Adept"] >>,
         << [phix |-> 1, phix_set |-> "PhiX Control Library, Adept"],
            [phix |-> 0, phix_set |-> None] >>,
         << [phix |-> 1, phix_set |-> "PhiX Control Library, Adept"],
            [phix |-> 1, phix_set |-> "Cloudbreak PhiX Control Library, Elevate"] >> }

\* two analytes, in one lane or in two: the first takes the samples the
\* second leaves
TwoPools ==
  { << Pool("1", ss, ph[1]), Pool(lane, <<s>>, ph[2]) >> :
      lane \in {"1", "2"}, ss \in SampleSeqs(1, MaxManifestSamples - 1),
      s \in ManifestSamples, ph \in PhixPairs }

\* a third lane, no first lane, three analytes, and none
OddPools ==
  { [ k \in DOMAIN lanes |-> Pool(lanes[k], <<s>>, ph) ] :
      lanes \in { <<"1", "3">>, <<"2", "2">>, <<"1", "2", "1">> },
      s \in ManifestSamples, ph \in PhixOptions }
  \cup { <<>> }

\* the container names of the analytes: one flowcell, one whose name holds a
\* dash, and two flowcells
ContainersFor(arts) ==
  { [k \in DOMAIN arts |-> <<"F", "C", "1">>] }
  \cup (IF Len(arts) = 1 THEN { [k \in DOMAIN arts |-> <<"F", "C", "-", "1">>] } ELSE {})
  \cup (IF Len(arts) >= 2 /\ \A k \in DOMAIN arts : arts[k].phix = 0 /\ arts[k].phix_set = None
        THEN { [k \in DOMAIN arts |-> IF k = 1 THEN <<"F", "C", "1">> ELSE <<"F", "C", "2">>] }
        ELSE {})

ManifestInputs ==
  UNION { { [arts |-> a, containers |-> c] : c \in ContainersFor(a) } :
            a \in OnePool \cup TwoPools \cup OddPools }

InitManifest ==
  /\ method = "manifest"
  /\ pc = "get_flowcell_id"
  /\ inp \in ManifestInputs
  /\ i = 0
  /\ log = <<>>
  /\ solved = <<>>
  /\ df_wl = <<>>
  /\ buffer_vols = <<>>
  /\ df_formatted = <<>>
  /\ sample_rows = <<>>
  /\ manifests = <<>>
  /\ res = [error |-> "", at |-> ""]
  /\ events = <<>>
  /\ exit_code = -1
  /\ compared = <<>>

RaiseIn(at, error) ==
  /\ Raise
  /\ res' = [error |-> error, at |-> at]

\* line 119-133 called at line 404
main_get_flowcell_id ==
  /\ method = "manifest" /\ pc = "get_flowcell_id"
  /\ LET flowcell_ids == inp.containers
     IN  IF Cardinality({ flowcell_ids[k] : k \in DOMAIN flowcell_ids }) = 1
         THEN /\ log' = IF \E k \in DOMAIN flowcell_ids[1] : flowcell_ids[1][k] = "-"
                        THEN Append(log, <<"WARNING:", "Container name contains a dash">>)
                        ELSE log
              /\ pc' = "make_manifests"
              /\ UNCHANGED <<res, exit_code>>
         ELSE /\ RaiseIn("get_flowcell_id", "Expected one flowcell ID.")
              /\ UNCHANGED log
  /\ UNCHANGED <<compared, method, inp, i, solved, df_wl, buffer_vols, df_formatted,
                 sample_rows, manifests, events>>

Lanes(arts) == { arts[k].lane : k \in DOMAIN arts }

\* line 141-152
mm_assert_analytes ==
  /\ method = "manifest" /\ pc = "make_manifests"
  /\ IF Len(inp.arts) \notin {1, 2}
     THEN RaiseIn("make_manifests", "Expected one or two output analytes.") /\ UNCHANGED i
     ELSE IF Lanes(inp.arts) \notin { {"1"}, {"1", "2"} }
     THEN RaiseIn("make_manifests", "Expected a single-lane or dual-lane flowcell.")
          /\ UNCHANGED i
     ELSE pc' = "pools" /\ i' = 1 /\ UNCHANGED <<res, exit_code>>
  /\ UNCHANGED <<compared, method, inp, log, solved, df_wl, buffer_vols, df_formatted,
                 sample_rows, manifests, events>>

\* line 174-199: the rows of the samples of a pool, up to the first label
\* that raises
FirstError(sr) ==
  IF \A k \in DOMAIN sr : sr[k].error = "" THEN ""
  ELSE sr[CHOOSE k \in DOMAIN sr :
            sr[k].error # "" /\ \A j \in 1..(k - 1) : sr[j].error = ""].error

RowsOfSamples(sr) == [error |-> FirstError(sr), rows |-> Flatten(Map(LAMBDA x : x.rows, sr))]

\* line 156-199: the assertions on a pool, then its rows
CollectPool(pool, p) ==
  IF PoolError(pool) # ""
  THEN [error |-> PoolError(pool), rows |-> <<>>]
  ELSE RowsOfSamples([k \in DOMAIN pool.samples |->
                        SampleRows(pool, pool.samples[k], <<p, k>>)])

\* line 156-199, one pool
mm_collect_rows ==
  /\ method = "manifest" /\ pc = "pools" /\ i <= Len(inp.arts)
  /\ LET c == CollectPool(inp.arts[i], i)
     IN  IF c.error # ""
         THEN RaiseIn("make_manifests", c.error) /\ UNCHANGED <<i, sample_rows>>
         ELSE /\ sample_rows' = sample_rows \o c.rows
              /\ i' = i + 1
              /\ UNCHANGED <<pc, res, exit_code>>
  /\ UNCHANGED <<compared, method, inp, log, solved, df_wl, buffer_vols, df_formatted,
                 manifests, events>>

\* line 201-235
mm_add_phix ==
  /\ method = "manifest" /\ pc = "pools" /\ i > Len(inp.arts)
  /\ LET g == AddPhixAll(sample_rows, GroupKeys(sample_rows), <<>>)
     IN  IF g.error # ""
         THEN RaiseIn("make_manifests", g.error) /\ UNCHANGED sample_rows
         ELSE /\ sample_rows' = g.rows
              /\ pc' = "check_distances"
              /\ UNCHANGED <<res, exit_code>>
  /\ UNCHANGED <<compared, method, inp, i, log, solved, df_wl, buffer_vols, df_formatted,
                 manifests, events>>

\* line 237-240
mm_check_distances ==
  /\ method = "manifest" /\ pc = "check_distances"
  /\ LET c == CheckLanes(sample_rows,
                         Sorted({ sample_rows[k].Lane : k \in DOMAIN sample_rows }, LaneLess),
                         <<>>, <<>>)
     IN  /\ log' = log \o c.entries
         /\ compared' = c.calls
         /\ IF c.raised
            THEN RaiseIn("make_manifests", "Identical indices detected.")
            ELSE pc' = "manifests" /\ UNCHANGED <<res, exit_code>>
  /\ UNCHANGED <<method, inp, i, solved, df_wl, buffer_vols, df_formatted,
                 sample_rows, manifests, events>>

\* line 242-282
mm_build_manifests ==
  /\ method = "manifest" /\ pc = "manifests"
  /\ manifests' = BuildManifests(sample_rows)
  /\ pc' = "write"
  /\ i' = 1
  /\ UNCHANGED <<compared, method, inp, log, solved, df_wl, buffer_vols, df_formatted,
                 sample_rows, res, events, exit_code>>

\* line 413-414, one file; open() or write() may fail, which nothing catches
main_write ==
  /\ method = "manifest" /\ pc = "write" /\ i <= Len(manifests)
  /\ \E written \in BOOLEAN :
       IF written
       THEN /\ events' = Append(events, [op |-> "write_manifest", file |-> manifests[i].n,
                                         content |-> manifests[i]])
            /\ i' = i + 1
            /\ UNCHANGED <<pc, res, exit_code>>
       ELSE /\ RaiseIn("write", "OSError")
            /\ UNCHANGED <<events, i>>
  /\ UNCHANGED <<compared, method, inp, log, solved, df_wl, buffer_vols, df_formatted,
                 sample_rows, manifests>>

\* line 417-422; ZipFile(), zipf.write() or os.remove() may fail, which nothing
\* catches
main_zip ==
  /\ method = "manifest" /\ pc = "write" /\ i > Len(manifests)
  /\ \E zipped \in BOOLEAN :
       IF zipped
       THEN /\ events' = Append(events, [op |-> "zip",
                               files |-> [k \in DOMAIN manifests |-> manifests[k].n],
                               removed |-> { manifests[k].n : k \in DOMAIN manifests }])
            /\ pc' = "upload"
            /\ UNCHANGED <<res, exit_code>>
       ELSE /\ RaiseIn("zip", "OSError")
            /\ UNCHANGED events
  /\ UNCHANGED <<compared, method, inp, i, log, solved, df_wl, buffer_vols, df_formatted,
                 sample_rows, manifests>>

\* line 425-431; an exception of upload_file is not caught
main_upload ==
  /\ method = "manifest" /\ pc = "upload"
  /\ \E uploaded \in BOOLEAN :
       IF uploaded
       THEN /\ events' = Append(events, [op |-> "upload_file"])
            /\ pc' = "move"
            /\ UNCHANGED <<res, exit_code>>
       ELSE /\ RaiseIn("upload", "upload_file failed")
            /\ UNCHANGED events
  /\ UNCHANGED <<compared, method, inp, i, log, solved, df_wl, buffer_vols, df_formatted,
                 sample_rows, manifests>>

\* the outcomes of line 436-440: both calls return, shutil.copyfile raises,
\* os.remove raises after the copy
MoveOutcomes == {"moved", "copy failed", "remove failed"}

\* a move whose failure is not caught
main_move_uncaught ==
  /\ method = "manifest" /\ pc = "move"
  /\ \E outcome \in MoveOutcomes :
       IF outcome = "moved"
       THEN /\ events' = Append(events, [op |-> "copy", removed |-> "zip"])
            /\ log' = Append(log, <<"INFO:", "Run manifest moved to ngi-nas-ns.">>)
            /\ pc' = "done"
            /\ exit_code' = 0
            /\ UNCHANGED res
       ELSE /\ events' = IF outcome = "remove failed"
                         THEN Append(events, [op |-> "copy", removed |-> ""])
                         ELSE events
            /\ RaiseIn("move", "OSError")
            /\ UNCHANGED log
  /\ UNCHANGED <<compared, method, inp, i, solved, df_wl, buffer_vols, df_formatted,
                 sample_rows, manifests>>

\* line 434-444: a failure of the copy or of the removal is logged
main_move ==
  /\ method = "manifest" /\ pc = "move"
  /\ \E outcome \in MoveOutcomes :
       /\ events' = IF outcome = "moved"
                    THEN Append(events, [op |-> "copy", removed |-> "zip"])
                    ELSE IF outcome = "remove failed"
                    THEN Append(events, [op |-> "copy", removed |-> ""])
                    ELSE events
       /\ log' = IF outcome = "moved"
                 THEN Append(log, <<"INFO:", "Run manifest moved to ngi-nas-ns.">>)
                 ELSE Append(log, <<"ERROR:", "Failed to move run manifest to ngi-nas-ns.">>)
  /\ pc' = "done"
  /\ exit_code' = 0
  /\ UNCHANGED <<compared, method, inp, i, solved, df_wl, buffer_vols, df_formatted,
                 sample_rows, manifests, res>>

NextManifest ==
  \/ main_get_flowcell_id
  \/ mm_assert_analytes
  \/ mm_collect_rows
  \/ mm_add_phix
  \/ mm_check_distances
  \/ mm_build_manifests
  \/ main_write
  \/ main_zip
  \/ main_upload
  \/ main_move

SpecManifest == InitManifest /\ [][NextManifest]_vars

(***************************************************************************)
(* Properties                                                              *)
(***************************************************************************)
Happened(op) == \E k \in DOMAIN events : events[k].op = op

\* the position of the first event op, 0 when there is none
FirstEvent(op) ==
  IF Happened(op)
  THEN CHOOSE k \in DOMAIN events :
         events[k].op = op /\ \A j \in 1..(k - 1) : events[j].op # op
  ELSE 0

ItemCount == IF method = "pool" THEN Len(inp) ELSE Len(inp.samples)

\* the raw source volumes of the batch
SourceVolumes ==
  IF method = "pool"
  THEN UNION { { inp[p].samples[k].vol : k \in DOMAIN inp[p].samples } : p \in DOMAIN inp }
  ELSE { inp.samples[k].vol : k \in DOMAIN inp.samples }

C3_ExitCodeTwoIffWarning ==
  (pc = "done" /\ (method = "norm" => ~inp.opt.local_data)) =>
     /\ exit_code = 2 <=> \E k \in DOMAIN log : IsWarning(log[k])
     /\ exit_code = 0 <=> ~\E k \in DOMAIN log : IsWarning(log[k])
     /\ 0 < FirstEvent("write_worklist")
     /\ FirstEvent("write_worklist") < FirstEvent("write_log")
     /\ FirstEvent("write_log") < FirstEvent("upload_csv")
     /\ FirstEvent("upload_csv") < FirstEvent("upload_log")

\* C3 witness: a LIMS run that ended with exit code 2
C3_Witness ==
  pc = "done" /\ exit_code = 2 /\ Happened("upload_log")

\* C5 (as claimed): every computed sample transfer volume is at most the
\* sample's accessible volume, in pool() and in the three cases of norm().
C5_TransferWithinAccessible ==
  \A k \in DOMAIN solved :
     IF method = "pool"
     THEN \A j \in DOMAIN solved[k].transfer_vol :
             RLe(solved[k].transfer_vol[j],
                 RSub(inp[k].samples[j].vol, I(well_dead_vol)))
     ELSE RLe(solved[k].sample_vol, RSub(inp.samples[k].vol, I(well_dead_vol)))

\* C6 (as claimed): every solved plan respects the destination well capacity,
\* tot_vol <= well_max_vol in norm() and pool_vol <= well_max_vol in pool().
C6_WithinWellCapacity ==
  \A k \in DOMAIN solved :
     IF method = "pool"
     THEN RLe(solved[k].pool_vol, I(pool_well_max_vol))
     ELSE RLe(solved[k].tot_vol, I(norm_well_max_vol))

\* the volume (nl) the rows of a worklist send to the well of pool p
RECURSIVE VolumeInto(_, _)
VolumeInto(rows, p) ==
  IF rows = <<>> THEN 0
  ELSE (IF Head(rows).pool = p THEN Head(rows).transfer_vol ELSE 0)
       + VolumeInto(Tail(rows), p)

\* C7 (as claimed): pool() never emits a worklist in which the sample transfer
\* volumes going into one pool sum to more than well_max_vol.
C7_NoOverflowingWorklist ==
  method = "pool" =>
    \A k \in DOMAIN events :
       events[k].op = "write_worklist" =>
         \A p \in DOMAIN inp :
            VolumeInto(events[k].rows, p) <= pool_well_max_vol * 1000


\* C8: a plain label matching the generic pattern yields exactly one entry:
\* with a dash separator the pair (idx1, revcomp(idx2)) of the parts before
\* and after the dash, without one a single index whose row has Index1 = idx1
\* and an empty Index2 (the claim as stated).
C8_GenericLabelEntry ==
  (method = "idxs_from_label" /\ pc = "returned" /\ res.branch = "generic") =>
     LET m == IdxFindFrom(inp, 1)
     IN  /\ Len(res.idxs) = 1
         /\ Len(sample_rows) = 1
         /\ IF m.dash
            THEN res.idxs[1] = Tuple(m.g1, revcomp(m.g2))
            ELSE sample_rows[1] = [Index1 |-> m.g1, Index2 |-> <<>>]

HasSingle(label) == FindAnyFrom(label, TENX_SINGLE_PAT, 1) # <<>>
HasDual(label) == FindAnyFrom(label, TENX_DUAL_PAT, 1) # <<>>
HasSmartseq(label) == FindFrom(label, SMARTSEQ_PAT, 1) # <<>>
HasGeneric(label) == IdxFindFrom(label, 1).found

\* C9: idxs_from_label takes the branch of the first grammar that matches, in
\* the order 10X-single, 10X-dual, SMART-seq3, NoIndex, generic; a NoIndex
\* label is rejected, a label of no grammar is a parse error, and in both
\* error cases nothing is returned.
C9_FirstMatchingGrammar ==
  (method = "idxs_from_label" /\ pc # "call") =>
     /\ HasSingle(inp) => res.branch = "tenx_single"
     /\ (~HasSingle(inp) /\ HasDual(inp)) => res.branch = "tenx_dual"
     /\ (~HasSingle(inp) /\ ~HasDual(inp) /\ HasSmartseq(inp)) => res.branch = "smartseq"
     /\ (~HasSingle(inp) /\ ~HasDual(inp) /\ ~HasSmartseq(inp) /\ IsNoIndex(inp))
           => res.branch = "noindex"
     /\ (~HasSingle(inp) /\ ~HasDual(inp) /\ ~HasSmartseq(inp) /\ ~IsNoIndex(inp)
           /\ HasGeneric(inp)) => res.branch = "generic"
     /\ (~HasSingle(inp) /\ ~HasDual(inp) /\ ~HasSmartseq(inp) /\ ~IsNoIndex(inp)
           /\ ~HasGeneric(inp)) => res.branch = "none"
     /\ res.branch = "noindex" =>
           pc = "raised" /\ res.error = "NoIndex cases not allowed." /\ res.idxs = <<>>
           /\ sample_rows = <<>>
     /\ res.branch = "none" =>
           pc = "raised" /\ res.error = "Could not parse index" /\ res.idxs = <<>>
           /\ sample_rows = <<>>
     /\ res.branch \in {"tenx_single", "tenx_dual", "smartseq", "generic"} =>
           pc = "returned" /\ Len(res.idxs) >= 1
     /\ res.branch = "tenx_single" => \A k \in DOMAIN res.idxs : res.idxs[k].kind = "str"
     /\ res.branch \in {"tenx_dual", "smartseq"} =>
           \A k \in DOMAIN res.idxs : res.idxs[k].kind = "tuple"

C9_Witness ==
  /\ method = "idxs_from_label" /\ pc = "returned"
  /\ HasSingle(inp) /\ HasDual(inp) /\ HasGeneric(inp)
  /\ res.branch = "tenx_single"

\* C4: check_pair_distance on two rows with identical Index1 and identical
\* Index2 computes distance 0 and raises the identical-indices error, for
\* every dist_warning_threshold and both settings of check_flips (the claim
\* as stated).
C4_IdenticalRowsAreFatal ==
  (method = "check_pair_distance" /\ pc # "call"
     /\ inp.row.Index1 = inp.row_comp.Index1 /\ inp.row.Index2 = inp.row_comp.Index2) =>
        res.dist = 0 /\ pc = "raised" /\ exit_code = 1

\* C10: for every pair of rows the distance computed with check_flips=True is
\* never greater than the distance computed with check_flips=False on the
\* same rows (the claim as stated).
C10_FlipDistanceNotGreater ==
  (method = "check_pair_distance" /\ pc # "call" /\ inp.check_flips) =>
     res.dist <= check_pair_distance(inp.row, inp.row_comp, FALSE,
                                     inp.dist_warning_threshold).dist

\* the rows of the PhiX controls, which carry no PhiX UDF of a pool
IsPhixRow(r) == "phix_loaded" \notin DOMAIN r

\* the process passes every validation the claim lists
ManifestInputValid ==
  /\ Len(inp.arts) \in {1, 2}
  /\ Lanes(inp.arts) \in { {"1"}, {"1", "2"} }
  /\ \A p \in DOMAIN inp.arts :
       /\ \A a, b \in DOMAIN inp.arts[p].samples :
            a # b => inp.arts[p].samples[a].label # inp.arts[p].samples[b].label
       /\ inp.arts[p].phix # 0 <=> inp.arts[p].phix_set # None
       /\ \A a \in DOMAIN inp.arts[p].samples :
            /\ ~IsNoIndex(inp.arts[p].samples[a].label)
            /\ \/ HasSingle(inp.arts[p].samples[a].label)
               \/ HasDual(inp.arts[p].samples[a].label)
               \/ HasSmartseq(inp.arts[p].samples[a].label)
               \/ HasGeneric(inp.arts[p].samples[a].label)

\* the calls of main that validate the process before any file is written
ValidationSteps == {"get_flowcell_id", "make_manifests"}

\* C2: every validation or collision failure of the run-manifest path is
\* raised before main writes a manifest file, a zip archive or an upload: a
\* run that raised in get_flowcell_id or in make_manifests has produced no
\* artifact, the validation failures of a process with
\* one flowcell are raised inside make_manifests, and a run that produced an
\* artifact passed every validation, holds no two rows of identical indices in
\* a lane and no PhiX index shorter than its group's length.
C2_NoArtifactOnFailure ==
  method = "manifest" =>
    /\ (pc = "raised" /\ res.at \in ValidationSteps)
          => events = <<>> /\ manifests = <<>> /\ exit_code = 1
    /\ (pc = "raised" /\ res.at \in ValidationSteps
          /\ Cardinality({ inp.containers[k] : k \in DOMAIN inp.containers }) = 1)
          => res.at = "make_manifests"
    /\ (events # <<>> \/ manifests # <<>>) =>
          /\ ManifestInputValid
          /\ \A k, l \in DOMAIN sample_rows :
               (k # l /\ sample_rows[k].Lane = sample_rows[l].Lane) =>
                  ~(/\ sample_rows[k].Index1 = sample_rows[l].Index1
                    /\ sample_rows[k].Index2 = sample_rows[l].Index2)
          /\ \A k \in DOMAIN sample_rows :
               IsPhixRow(sample_rows[k]) =>
                  /\ Len(sample_rows[k].Index1) = sample_rows[k].len_idx1
                  /\ Len(sample_rows[k].Index2) = sample_rows[k].len_idx2

C2_Witness ==
  /\ method = "manifest" /\ pc = "raised"
  /\ res = [error |-> "Identical indices detected.", at |-> "make_manifests"]
  /\ \E k \in DOMAIN sample_rows : IsPhixRow(sample_rows[k])
  /\ events = <<>>

\* the check of the lanes is over: the positions from which manifests are built
AfterCheck == pc \in {"manifests", "write", "upload", "move", "done"}

SameKey(a, b) ==
  /\ a.len_idx1 = b.len_idx1
  /\ a.len_idx2 = b.len_idx2
  /\ a.Lane = b.Lane

\* C11: make_manifests never compares two rows of different lanes nor a pair
\* twice, and before any manifest is built every unordered pair of rows of
\* df_samples_and_controls (samples and PhiX) that share a lane has been
\* compared exactly once, whatever the manifest groups of the two rows.
C11_EveryLanePairCheckedOnce ==
  method = "manifest" =>
    /\ \A j \in DOMAIN compared :
         /\ compared[j][1] # compared[j][2]
         /\ sample_rows[compared[j][1]].Lane = sample_rows[compared[j][2]].Lane
    /\ \A j, k \in DOMAIN compared :
         j # k => { compared[j][1], compared[j][2] } # { compared[k][1], compared[k][2] }
    /\ (AfterCheck \/ manifests # <<>>) =>
         \A a, b \in DOMAIN sample_rows :
           (a < b /\ sample_rows[a].Lane = sample_rows[b].Lane) =>
             \E j \in DOMAIN compared : { compared[j][1], compared[j][2] } = {a, b}

\* the lane check has passed on a lane with two manifest groups, one of them
\* with PhiX rows, and a sample of one group was compared with a PhiX row of
\* the other
C11_Witness ==
  /\ method = "manifest" /\ pc = "manifests"
  /\ \E j \in DOMAIN compared :
       /\ ~SameKey(sample_rows[compared[j][1]], sample_rows[compared[j][2]])
       /\ ~IsPhixRow(sample_rows[compared[j][1]])
       /\ IsPhixRow(sample_rows[compared[j][2]])

\* the pool loop of make_manifests accepted the process and the PhiX step has
\* run: on to the lane check, or stopped by something that is no validation
\* of the input
PhixStepDone ==
  \/ pc \in {"check_distances", "manifests", "write", "upload", "move", "done"}
  \/ pc = "raised" /\ res.at = "make_manifests"
       /\ res.error \in {"KeyError", "Identical indices detected."}

RowKey(r) == << r.len_idx1, r.len_idx2, r.Lane >>

\* the index pairs of the PhiX rows of a group, in the order of the rows
PhixRowsOf(key) ==
  LET rows == SelectSeq(sample_rows, LAMBDA r : IsPhixRow(r) /\ RowKey(r) = key)
  IN  [ k \in DOMAIN rows |-> << rows[k].SampleName, rows[k].Index1, rows[k].Index2 >> ]

\* the four index pairs of a PhiX set fitted to the index lengths of a group
FittedSet(name, key) ==
  [ k \in DOMAIN PHIX_SETS(name).indices |->
      << PHIX_SETS(name).nickname,
         fit_seq(PHIX_SETS(name).indices[k][1], key[1]).seq,
         fit_seq(PHIX_SETS(name).indices[k][2], key[2]).seq >> ]

\* C12: once the PhiX step of make_manifests has run on an accepted process,
\* every (len_idx1, len_idx2, Lane) group with a sample of a PhiX-loaded pool
\* holds exactly the four index pairs of that pool's PhiX set, fitted to the
\* two index lengths of the group, and a group without such a sample holds no
\* PhiX row; two analytes in one lane included.
C12_PhixSetPerGroup ==
  (method = "manifest" /\ PhixStepDone) =>
    \A g \in DOMAIN sample_rows :
      ~IsPhixRow(sample_rows[g]) =>
        LET key == RowKey(sample_rows[g])
            loaded == { k \in DOMAIN sample_rows :
                          /\ ~IsPhixRow(sample_rows[k])
                          /\ RowKey(sample_rows[k]) = key
                          /\ sample_rows[k].phix_loaded }
        IN  IF loaded = {}
            THEN PhixRowsOf(key) = <<>>
            ELSE \A k \in loaded :
                   PhixRowsOf(key) = FittedSet(sample_rows[k].phix_set_name, key)

\* the rows of lines 186-199 for all samples of all pools of the process
ExpandedRows == Flatten([ p \in DOMAIN inp.arts |-> CollectPool(inp.arts[p], p).rows ])

Count(seq, x) == Cardinality({ k \in DOMAIN seq : seq[k] = x })

SameBag(a, b) ==
  /\ Len(a) = Len(b)
  /\ \A k \in DOMAIN a : Count(a, a[k]) = Count(b, a[k])

ManifestsBuilt == pc \in {"write", "upload", "move", "done"}

\* the manifests split rows by key, and the rows that are no PhiX rows are
\* the rows expanded
Partitioned(rows, expanded) ==
  /\ \A m \in DOMAIN manifests :
       \A j \in DOMAIN manifests[m].samples :
         << Len(manifests[m].samples[j].Index1),
            Len(manifests[m].samples[j].Index2),
            manifests[m].samples[j].Lane >> = manifests[m].grouped_by
  /\ \A m, n \in DOMAIN manifests :
       m # n => manifests[m].grouped_by # manifests[n].grouped_by
  /\ { manifests[m].grouped_by : m \in DOMAIN manifests }
       = { RowKey(expanded[k]) : k \in DOMAIN expanded }
  /\ \A m \in DOMAIN manifests :
       manifests[m].samples
         = Map(ManifestColumns,
               SelectSeq(rows, LAMBDA r : RowKey(r) = manifests[m].grouped_by))
  /\ SameBag(SelectSeq(rows, LAMBDA r : ~IsPhixRow(r)), expanded)

\* C13: once make_manifests has returned, every manifest holds rows of one
\* (len(Index1), len(Index2), Lane) key, the one it is named after; there is
\* one manifest per distinct key of the rows; the manifests hold every row of
\* df_samples_and_controls once, in the manifest of its key; and the rows of
\* df_samples_and_controls that are no PhiX rows are the rows expanded from the
\* samples of the process, each as often.
C13_ManifestsPartitionRows ==
  (method = "manifest" /\ ManifestsBuilt) => Partitioned(sample_rows, ExpandedRows)

\* manifests were built for two samples of different index lengths in one
\* lane, with PhiX rows in each
C13_Witness ==
  /\ method = "manifest" /\ ManifestsBuilt
  /\ Len(manifests) >= 2
  /\ Len(ExpandedRows) >= 2
  /\ \A m \in DOMAIN manifests : Len(manifests[m].samples) >= 5

\* C14: for every string over {A, C, G, T}, revcomp returns a string of the
\* same length and revcomp of that result is the string again.
C14_RevcompInvolution ==
  method = "revcomp" =>
    /\ i >= 1 => Len(res) = Len(inp)
    /\ i = 2 => res = inp

\* revcomp was applied twice to a string of all four bases that is not its own
\* reverse complement
C14_Witness ==
  /\ method = "revcomp" /\ i = 2
  /\ { inp[k] : k \in DOMAIN inp } = Bases
  /\ revcomp(inp) # inp
  /\ res = inp

\* the calculated columns of the k-th sample of a norm() run
NormRowOf(k) == NormRow(inp.samples[k], inp.opt.zika_min_vol, well_dead_vol)

\* min_transfer_amt <= target_amt <= max_transfer_amt
TargetInRange(r) ==
  RLe(r.min_transfer_amt, r.target_amt) /\ RLe(r.target_amt, r.max_transfer_amt)

\* C15: in norm(), a sample whose target amount lies between min_transfer_amt
\* and max_transfer_amt gets sample_vol = target_amt / conc, buffer_vol =
\* target_vol - sample_vol, which is not negative, and tot_vol = target_vol =
\* sample_vol + buffer_vol.
C15_IdealCaseVolumes ==
  method = "norm" =>
    \A k \in DOMAIN solved :
      TargetInRange(NormRowOf(k)) =>
        /\ solved[k].sample_vol = RDiv(NormRowOf(k).target_amt, NormRowOf(k).conc)
        /\ solved[k].buffer_vol = RSub(NormRowOf(k).target_vol, solved[k].sample_vol)
        /\ RLe(I(0), solved[k].buffer_vol)
        /\ solved[k].tot_vol = NormRowOf(k).target_vol
        /\ RAdd(solved[k].sample_vol, solved[k].buffer_vol) = solved[k].tot_vol

\* the sample of the example: 10 ng/ul, 100 ng in 20 ul, solved as 10 ul of
\* sample and 10 ul of buffer
C15_Witness ==
  /\ method = "norm"
  /\ \E k \in DOMAIN solved :
       /\ TargetInRange(NormRowOf(k))
       /\ NormRowOf(k).conc = I(10)
       /\ NormRowOf(k).target_amt = I(100)
       /\ NormRowOf(k).target_vol = I(20)
       /\ solved[k].sample_vol = I(10)
       /\ solved[k].buffer_vol = I(10)
       /\ solved[k].tot_vol = I(20)

\* C16: in norm(), a sample with min_transfer_amt > target_amt gets sample_vol
\* = zika_min_vol and buffer_vol = tot_vol - sample_vol, which is not
\* negative; with volume expansion tot_vol = min_transfer_amt / target_conc,
\* at most well_max_vol for a sample that is solved, and without it tot_vol =
\* target_vol.
C16_OverConcentratedVolumes ==
  method = "norm" =>
    \A k \in DOMAIN solved :
      RLt(NormRowOf(k).target_amt, NormRowOf(k).min_transfer_amt) =>
        /\ solved[k].sample_vol = inp.opt.zika_min_vol
        /\ solved[k].buffer_vol = RSub(solved[k].tot_vol, solved[k].sample_vol)
        /\ RLe(I(0), solved[k].buffer_vol)
        /\ IF inp.opt.volume_expansion
           THEN /\ solved[k].tot_vol
                     = RDiv(NormRowOf(k).min_transfer_amt, NormRowOf(k).target_conc)
                /\ RLe(solved[k].tot_vol, I(norm_well_max_vol))
           ELSE solved[k].tot_vol = NormRowOf(k).target_vol

\* the worklist of a pool() or norm() run has been formatted
Formatted ==
  /\ method \in {"pool", "norm"}
  /\ pc \in {"write_worklist", "write_log", "upload_csv", "upload_log", "warnings", "done"}

\* the transfers in nl in the order of the worklist, before the split
SortedTransfers ==
  PrepareWorklist(df_wl, IF method = "pool" THEN pool_deck ELSE norm_deck)

\* the number of rows a transfer of v nl is written as
ChunkCount(v) == IF v <= max_vol THEN 1 ELSE (v + max_vol - 1) \div max_vol

\* the position in the worklist of the first row of the k-th transfer
RECURSIVE RunStart(_, _)
RunStart(sorted, k) ==
  IF k = 1 THEN 1
  ELSE RunStart(sorted, k - 1) + ChunkCount(sorted[k - 1].transfer_vol)

RECURSIVE SumVols(_, _, _)
SumVols(df, from, n) ==
  IF n = 0 THEN 0 ELSE df[from].transfer_vol + SumVols(df, from + 1, n - 1)

\* the rows of the worklist from position `from` are the transfer row, as one
\* row if it is at most max_vol and else as chunks in 1..max_vol of the same
\* plates and wells, all but one of them of max_vol, that sum to its volume
IsRunOf(row, from) ==
  LET n == ChunkCount(row.transfer_vol)
      run == from..(from + n - 1)
  IN  /\ from + n - 1 <= Len(df_formatted)
      /\ \A j \in run : [df_formatted[j] EXCEPT !.transfer_vol = row.transfer_vol] = row
      /\ SumVols(df_formatted, from, n) = row.transfer_vol
      /\ n > 1 =>
           /\ \A j \in run : df_formatted[j].transfer_vol \in 1..max_vol
           /\ Cardinality({ j \in run : df_formatted[j].transfer_vol = max_vol }) >= n - 1

\* the worklist is the runs of the transfers, in their order, and nothing else
SplitInRuns(sorted) ==
  /\ \A k \in DOMAIN sorted : IsRunOf(sorted[k], RunStart(sorted, k))
  /\ Len(df_formatted) = RunStart(sorted, Len(sorted) + 1) - 1

\* C17: format_worklist writes every transfer as one run of consecutive rows:
\* a transfer of at most 5000 nl as the one row it is, a larger one as chunks
\* that are each above 0 and at most 5000 nl, all but one of exactly 5000 nl,
\* that sum to the volume of the transfer and keep its plates and wells; the
\* runs follow each other in the order of the transfers and nothing else is in
\* the worklist.
C17_SplitIntoChunks == Formatted => SplitInRuns(SortedTransfers)

\* a worklist with a transfer of 12000 nl written as 5000, 5000 and 2000 nl,
\* followed by the rows of another transfer
HasSplitRun(sorted) ==
  \E k \in DOMAIN sorted :
    /\ sorted[k].transfer_vol = 12000
    /\ k < Len(sorted)
    /\ LET from == RunStart(sorted, k)
       IN  /\ df_formatted[from].transfer_vol = 5000
           /\ df_formatted[from + 1].transfer_vol = 5000
           /\ df_formatted[from + 2].transfer_vol = 2000

C17_Witness == Formatted /\ HasSplitRun(SortedTransfers)

\* the k-th pool of a pool() run holds a sample of concentration below 0.01
HasLowConc(k) == \E j \in DOMAIN inp[k].samples : RLt(inp[k].samples[j].conc, conc_floor)

\* C18: in pool(), a pool with a sample of concentration below 0.01 is solved
\* with 0.01 for that sample and a WARNING about it in the log, and such a
\* sample never makes the run fail: a run that raised in the loop over the
\* pools raised on a pool whose UDFs are out of range.
C18_LowConcClampedNeverFatal ==
  method = "pool" =>
    /\ \A k \in DOMAIN solved :
         HasLowConc(k) =>
           /\ \E e \in DOMAIN solved[k].entries :
                solved[k].entries[e] = <<"WARNING:", "fell short of 0.01">>
           /\ \A j \in solved[k].low :
                solved[k].transfer_vol[j]
                  = TransferVol(solved[k].sample_transfer_amount, conc_floor,
                                RSub(inp[k].samples[j].vol, I(well_dead_vol)))
    /\ (pc = "raised" /\ i \in DOMAIN inp) =>
         ~PoolUdfsOk(Accessible(inp[i].samples, well_dead_vol), inp[i], pool_well_max_vol)

\* the comments "Add ... ul buffer to pool ..." of the worklist written
BufferComments ==
  UNION { events[e].buffer_comments :
            e \in { x \in DOMAIN events : events[x].op = "write_worklist" } }

\* C19: in a run of pool() that writes its worklist, the buffer volume
\* pool_vol minus the sum of the sample transfer volumes of every pool is not
\* negative, every pool with a positive buffer volume has its comment
\* "Add ... ul buffer to pool ..." in the header of the worklist, and every row
\* of the worklist is a transfer from the sample plate.
C19_BufferIsOperatorComment ==
  method = "pool" /\ Happened("write_worklist") =>
    /\ \A k \in DOMAIN solved : RLe(I(0), solved[k].buffer)
    /\ \A k \in DOMAIN solved :
         RLt(I(0), solved[k].buffer) => k \in BufferComments
    /\ \A j \in DOMAIN df_formatted : df_formatted[j].src_name = "src"

\* the entries main logs at the end of the move
MoveEntries ==
  { <<"INFO:", "Run manifest moved to ngi-nas-ns.">>,
    <<"ERROR:", "Failed to move run manifest to ngi-nas-ns.">> }

MoveAttempted ==
  \/ Happened("copy")
  \/ \E k \in DOMAIN log : log[k] \in MoveEntries

MoveFailed ==
  \E k \in DOMAIN log : log[k] = <<"ERROR:", "Failed to move run manifest to ngi-nas-ns.">>

\* C20: in the manifest main, a copy to the shared directory happens only
\* after the upload of the zip archive, itself after the zip and the writes; a
\* failed copy or removal is logged as an error and the run still ends with
\* exit code 0 and its upload; no run raises in the move; and a run that raised
\* while writing, zipping or uploading has attempted no move.
C20_UploadBeforeCopy ==
  method = "manifest" =>
    /\ \A k \in DOMAIN events :
         events[k].op = "copy" =>
            /\ FirstEvent("upload_file") \in 1..(k - 1)
            /\ FirstEvent("zip") \in 1..(FirstEvent("upload_file") - 1)
    /\ MoveAttempted => pc = "done" /\ exit_code = 0 /\ Happened("upload_file")
    /\ pc = "done" => MoveAttempted /\ (MoveFailed <=> ~(\E k \in DOMAIN events :
                                          events[k].op = "copy" /\ events[k].removed = "zip"))
    /\ pc = "raised" =>
         /\ res.at \in ValidationSteps \cup {"write", "zip", "upload"}
         /\ exit_code = 1
         /\ ~MoveAttempted
         /\ res.at = "upload" => Happened("zip") /\ ~Happened("upload_file")
         /\ res.at \in {"write", "zip"} => ~Happened("zip") /\ ~Happened("upload_file")

\* the copy failed after the upload, and the run ended normally
C20_Witness ==
  /\ method = "manifest" /\ pc = "done" /\ exit_code = 0
  /\ MoveFailed
  /\ ~Happened("copy")
  /\ Happened("upload_file")

\* x clamped to the interval from lo to hi
Nearest(x, lo, hi) == IF RLt(x, lo) THEN lo ELSE IF RLt(hi, x) THEN hi ELSE x

\* C21: every pool solved by pool() for which an even pool is possible has a
\* final volume between pool_min_vol_given_conc and pool_max_vol_given_conc:
\* the target volume when it lies between the two, the nearer of the two
\* otherwise.
C21_PoolVolInFeasibleRange ==
  method = "pool" =>
    \A k \in DOMAIN solved :
      solved[k].even_pool_is_possible =>
        /\ RLe(solved[k].pool_min_vol_given_conc, solved[k].pool_vol)
        /\ RLe(solved[k].pool_vol, solved[k].pool_max_vol_given_conc)
        /\ solved[k].pool_vol = Nearest(solved[k].target_pool_vol,
                                        solved[k].pool_min_vol_given_conc,
                                        solved[k].pool_max_vol_given_conc)

\* C22: every pool solved by pool() for which an even pool is possible has a
\* final concentration between pool_min_conc and pool_max_conc: the target
\* concentration when it lies between the two, the nearer of the two otherwise.
C22_PoolConcInFeasibleRange ==
  method = "pool" =>
    \A k \in DOMAIN solved :
      solved[k].even_pool_is_possible =>
        /\ RLe(solved[k].pool_min_conc, solved[k].pool_conc)
        /\ RLe(solved[k].pool_conc, solved[k].pool_max_conc)
        /\ solved[k].pool_conc = Nearest(solved[k].target_pool_conc,
                                         solved[k].pool_min_conc,
                                         solved[k].pool_max_conc)

\* the samples of pool k as pool() sees them
PoolSamplesOf(k) == Accessible(inp[k].samples, well_dead_vol)

\* zika_min_vol x conc of a sample, and accessible volume x conc
MinAmountOf(sample) == RMul(pool_zika_min_vol, ClampConc(sample.conc))
MaxAmountOf(sample) == RMul(sample.vol, ClampConc(sample.conc))

\* the sample of the highest concentration in pool k
HighestConcSample(k) ==
  LET df_pool == PoolSamplesOf(k)
  IN  df_pool[CHOOSE a \in DOMAIN df_pool :
                \A b \in DOMAIN df_pool : RLe(df_pool[b].conc, df_pool[a].conc)]

\* C23: pool() declares an even pool possible exactly when every minimum
\* amount of a sample of the pool is strictly below every maximum amount of a
\* sample of the pool; for a pool without an even pool the WARNING on depleted
\* samples is logged, the pool is solved, and the common transfer amount of
\* its samples is the minimum amount of its sample of the highest
\* concentration.
C23_EvenPoolFeasibility ==
  method = "pool" =>
    \A k \in DOMAIN solved :
      /\ solved[k].even_pool_is_possible
           <=> \A a, b \in DOMAIN PoolSamplesOf(k) :
                 RLt(MinAmountOf(PoolSamplesOf(k)[a]), MaxAmountOf(PoolSamplesOf(k)[b]))
      /\ ~solved[k].even_pool_is_possible =>
           /\ \E e \in DOMAIN solved[k].entries :
                solved[k].entries[e] = <<"WARNING:", "depleted and under-represented">>
           /\ \E e \in DOMAIN log :
                log[e] = <<"WARNING:", "depleted and under-represented">>
           /\ solved[k].sample_transfer_amount = MinAmountOf(HighestConcSample(k))

(***************************************************************************)
(* zika_utils.write_worklist applied to a formatted worklist.               *)
(* A row of the worklist written is a record; the fields a line does not    *)
(* print are "nan".                                                        *)
(***************************************************************************)
nan == "nan"

\* line 409-412
tip_strats == [always |-> "[VAR1]", never |-> "[VAR2]"]

\* line 388-391 and 424-427: df.shift(-1) holds NaN for the last row, which
\* equals nothing
SameDstAsNext(df, k) ==
  /\ k < Len(df)
  /\ df[k].dst_pos = df[k + 1].dst_pos
  /\ df[k].dst_well = df[k + 1].dst_well

\* a filter without the test of the volumes
MultiAspirateFilter_any_volume(df, k) ==
  /\ SameDstAsNext(df, k)
  /\ df[k].src_name = "buffer_plate"
  /\ df[k + 1].src_name # "buffer_plate"

\* line 384-401
MultiAspirateFilter(df, k) ==
  /\ SameDstAsNext(df, k)
  /\ df[k].src_name = "buffer_plate"
  /\ df[k + 1].src_name # "buffer_plate"
  /\ df[k].transfer_vol + df[k + 1].transfer_vol <= max_vol

\* line 382-404
TransferType(df, multi_aspirate, k) ==
  IF multi_aspirate /\ MultiAspirateFilter(df, k) THEN "MULTI_ASPIRATE" ELSE "COPY"

\* line 420-432
KeepTipsFilter(df, k) ==
  /\ SameDstAsNext(df, k)
  /\ df[k].src_name = "buffer_plate"

\* a test of the row before that does not skip the second row
AfterMultiAspirate_any_row(df, multi_aspirate, k) ==
  /\ k > 1
  /\ TransferType(df, multi_aspirate, k - 1) = "MULTI_ASPIRATE"

\* line 439: 'i>1 and df.loc[i-1,"transfer_type"] == "MULTI_ASPIRATE"', where
\* the index i of the k-th row is k - 1
AfterMultiAspirate(df, multi_aspirate, k) ==
  /\ k - 1 > 1
  /\ TransferType(df, multi_aspirate, k - 1) = "MULTI_ASPIRATE"

\* line 415-440: the tip strategy of the k-th row
TipStrat(df, multi_aspirate, keep_buffer_tips, k) ==
  IF ~keep_buffer_tips THEN tip_strats.always
  ELSE IF TransferType(df, multi_aspirate, k) = "MULTI_ASPIRATE" THEN nan
  ELSE IF AfterMultiAspirate(df, multi_aspirate, k) THEN tip_strats.never
  ELSE IF KeepTipsFilter(df, k) THEN tip_strats.never
  ELSE tip_strats.always

\* line 441-442: the row added at index i + 0.5
ChangePipettes ==
  [transfer_type |-> "CHANGE_PIPETTES", src_pos |-> nan, src_well |-> nan,
   dst_pos |-> nan, dst_well |-> nan, transfer_vol |-> nan, tip_strat |-> nan]

\* line 434-442 and 468-504: what the line of the k-th row prints, and the
\* CHANGE_PIPETTES line after it
WrittenRows(df, multi_aspirate, keep_buffer_tips, k) ==
  LET type == TransferType(df, multi_aspirate, k)
      line == IF type = "MULTI_ASPIRATE"
              THEN [transfer_type |-> type,
                    src_pos |-> df[k].src_pos, src_well |-> df[k].src_well,
                    dst_pos |-> nan, dst_well |-> nan,
                    transfer_vol |-> df[k].transfer_vol, tip_strat |-> nan]
              ELSE [transfer_type |-> type,
                    src_pos |-> df[k].src_pos, src_well |-> df[k].src_well,
                    dst_pos |-> df[k].dst_pos, dst_well |-> df[k].dst_well,
                    transfer_vol |-> df[k].transfer_vol,
                    tip_strat |-> TipStrat(df, multi_aspirate, keep_buffer_tips, k)]
  IN  IF keep_buffer_tips /\ type # "MULTI_ASPIRATE"
         /\ AfterMultiAspirate(df, multi_aspirate, k)
      THEN <<line, ChangePipettes>>
      ELSE <<line>>

\* line 455-459: the tip strategies defined in the head of the worklist
VariableDefinitions(df, multi_aspirate, keep_buffer_tips) ==
  { v \in {"always", "never"} :
      \E k \in DOMAIN df :
        TipStrat(df, multi_aspirate, keep_buffer_tips, k) = tip_strats[v] }

\* line 360-507
write_worklist(df, multi_aspirate, keep_buffer_tips) ==
  [ variable_definitions |-> VariableDefinitions(df, multi_aspirate, keep_buffer_tips),
    rows |-> Flatten([k \in DOMAIN df |->
                        WrittenRows(df, multi_aspirate, keep_buffer_tips, k)]) ]

MaxWriteRows == 4

\* transfers in nl: two of the smaller make 3000, one of each 5000
WriteVolumes == {1500, 3500}

WriteWells == { <<1, 1>>, <<2, 1>> }

\* a row of a formatted normalization worklist
WriteRows ==
  { [src_name |-> n, src_pos |-> norm_deck[n],
     src_well |-> IF n = "buffer_plate" THEN <<1, 1>> ELSE w,
     dst_name |-> "dst", dst_pos |-> norm_deck["dst"], dst_well |-> w,
     transfer_vol |-> v] :
       n \in {"buffer_plate", "src"}, w \in WriteWells, v \in WriteVolumes }

WriteInputs ==
  [ df : SeqsUpTo(WriteRows, MaxWriteRows),
    multi_aspirate : BOOLEAN, keep_buffer_tips : BOOLEAN ]

InitWrite ==
  /\ method = "write_worklist"
  /\ pc = "call"
  /\ inp \in WriteInputs
  /\ i = 0
  /\ log = <<>>
  /\ solved = <<>>
  /\ df_wl = <<>>
  /\ buffer_vols = <<>>
  /\ df_formatted = <<>>
  /\ sample_rows = <<>>
  /\ manifests = <<>>
  /\ res = [variable_definitions |-> {}, rows |-> <<>>]
  /\ events = <<>>
  /\ exit_code = -1
  /\ compared = <<>>

write_worklist_call ==
  /\ method = "write_worklist" /\ pc = "call"
  /\ res' = write_worklist(inp.df, inp.multi_aspirate, inp.keep_buffer_tips)
  /\ pc' = "done"
  /\ UNCHANGED <<compared, method, inp, i, log, solved, df_wl, buffer_vols, df_formatted,
                 sample_rows, manifests, events, exit_code>>

NextWrite == write_worklist_call

SpecWrite == InitWrite /\ [][NextWrite]_vars

\* write_worklist has returned
Written == method = "write_worklist" /\ pc = "done"

\* the lines of the transfers, without the CHANGE_PIPETTES lines
TransferLines == SelectSeq(res.rows, LAMBDA r : r.transfer_type # "CHANGE_PIPETTES")

\* row k is a buffer transfer, row k + 1 a transfer from another plate to the
\* same position and well, and the two volumes are at most 5000 nl together
BufferThenSample(df, k) ==
  /\ k + 1 \in DOMAIN df
  /\ df[k].src_name = "buffer_plate"
  /\ df[k + 1].src_name # "buffer_plate"
  /\ df[k].dst_pos = df[k + 1].dst_pos
  /\ df[k].dst_well = df[k + 1].dst_well
  /\ df[k].transfer_vol + df[k + 1].transfer_vol <= 5000

\* the line of row k is a MULTI_ASPIRATE line exactly for the marked rows
MarkedExactly(lines) ==
  \A k \in DOMAIN inp.df :
    k \in DOMAIN lines =>
      (lines[k].transfer_type = "MULTI_ASPIRATE"
         <=> (inp.multi_aspirate /\ BufferThenSample(inp.df, k)))

\* C24 as stated: with multi_aspirate, a row is marked MULTI_ASPIRATE exactly
\* when it is a buffer transfer followed by a transfer from another plate to
\* the same position and well with at most 5000 nl together, and each marked
\* pair is written as one line that carries the sum of the two volumes.
C24_PairWrittenAsOneRow ==
  (Written /\ inp.multi_aspirate) =>
    LET marked == { k \in DOMAIN inp.df : BufferThenSample(inp.df, k) }
    IN  /\ Len(TransferLines) = Len(inp.df) - Cardinality(marked)
        /\ \A k \in marked :
             \E j \in DOMAIN TransferLines :
               /\ TransferLines[j].transfer_type = "MULTI_ASPIRATE"
               /\ TransferLines[j].transfer_vol
                    = inp.df[k].transfer_vol + inp.df[k + 1].transfer_vol

\* C24, amended: write_worklist writes one transfer line per row, in the order
\* of the rows; the line of a row is a MULTI_ASPIRATE line exactly when
\* multi_aspirate is set and the row is a buffer transfer followed by a
\* transfer from another plate to the same position and well with at most
\* 5000 nl together; a MULTI_ASPIRATE line carries the source and the volume of
\* its buffer row alone, and the line of the row after it is a COPY line with
\* that row's own volume and destination.
C24_PairWrittenAsTwoRows ==
  Written =>
    /\ Len(TransferLines) = Len(inp.df)
    /\ MarkedExactly(TransferLines)
    /\ \A k \in DOMAIN inp.df :
         k \in DOMAIN TransferLines =>
           /\ TransferLines[k].transfer_vol = inp.df[k].transfer_vol
           /\ TransferLines[k].src_pos = inp.df[k].src_pos
           /\ TransferLines[k].src_well = inp.df[k].src_well
           /\ TransferLines[k].transfer_type = "COPY" =>
                /\ TransferLines[k].dst_pos = inp.df[k].dst_pos
                /\ TransferLines[k].dst_well = inp.df[k].dst_well
           /\ TransferLines[k].transfer_type = "MULTI_ASPIRATE" =>
                /\ k + 1 \in DOMAIN TransferLines
                /\ TransferLines[k + 1].transfer_type = "COPY"

\* a worklist was written with multi_aspirate in which a buffer row and the
\* sample row after it make exactly 5000 nl, and another pair makes more
C24_Witness ==
  /\ Written /\ inp.multi_aspirate
  /\ \E k \in DOMAIN inp.df :
       /\ BufferThenSample(inp.df, k)
       /\ inp.df[k].transfer_vol + inp.df[k + 1].transfer_vol = 5000
       /\ TransferLines[k].transfer_type = "MULTI_ASPIRATE"
  /\ \E k \in DOMAIN inp.df :
       /\ k + 1 \in DOMAIN inp.df
       /\ inp.df[k].src_name = "buffer_plate"
       /\ inp.df[k + 1].src_name # "buffer_plate"
       /\ inp.df[k].dst_well = inp.df[k + 1].dst_well
       /\ inp.df[k].transfer_vol + inp.df[k + 1].transfer_vol > 5000

\* the position in the worklist written of the line of row k
LinePos(k) ==
  CHOOSE j \in DOMAIN res.rows :
    /\ res.rows[j].transfer_type # "CHANGE_PIPETTES"
    /\ Cardinality({ l \in 1..j : res.rows[l].transfer_type # "CHANGE_PIPETTES" }) = k

\* row k is a buffer transfer and row k + 1 goes to the same position and well
KeepsTips(df, k) ==
  /\ k + 1 \in DOMAIN df
  /\ df[k].src_name = "buffer_plate"
  /\ df[k].dst_pos = df[k + 1].dst_pos
  /\ df[k].dst_well = df[k + 1].dst_well

\* C25: without keep_buffer_tips every COPY line of the worklist written has
\* the strategy that always changes tips and there is no CHANGE_PIPETTES
\* line; with keep_buffer_tips a buffer row followed by a row to the same
\* well is written as a COPY line that never changes tips or as a
\* MULTI_ASPIRATE line, and where the row after it does not keep its tips
\* itself, a CHANGE_PIPETTES line follows the line of that row immediately,
\* wherever the rows stand in the worklist.
C25_ChangePipettesAfterKeptTips ==
  (Written /\ Len(TransferLines) = Len(inp.df)) =>
    /\ ~inp.keep_buffer_tips =>
         \A j \in DOMAIN res.rows :
           /\ res.rows[j].transfer_type # "CHANGE_PIPETTES"
           /\ res.rows[j].transfer_type = "COPY" =>
                res.rows[j].tip_strat = tip_strats.always
    /\ inp.keep_buffer_tips =>
         \A k \in DOMAIN inp.df :
           KeepsTips(inp.df, k) =>
             /\ \/ TransferLines[k].transfer_type = "MULTI_ASPIRATE"
                \/ /\ TransferLines[k].transfer_type = "COPY"
                   /\ TransferLines[k].tip_strat = tip_strats.never
             /\ ~KeepsTips(inp.df, k + 1) =>
                  /\ LinePos(k + 1) + 1 \in DOMAIN res.rows
                  /\ res.rows[LinePos(k + 1) + 1].transfer_type = "CHANGE_PIPETTES"

(***************************************************************************)
(* zika_utils.resolve_buffer_transfers, applied to dataframes of its own,  *)
(* one action per block of the function and one per turn of its loop.      *)
(***************************************************************************)
MaxResolveRows == 3

\* the 96 wells of a plate
FullPlate == buffer_plate_rows * buffer_plate_cols

\* a few samples, or a full plate of them
ResolveSizes == (1 .. MaxResolveRows) \cup {FullPlate}

\* the source well of the first sample is A:1, A:10 or A:12
ResolveOffsets == {0, 72, 88}

\* buffer volumes in ul; 170 ul makes 35 sub-transfers
ResolveVolumes == {I(0), I(2), I(60), I(100), I(170)}

\* n samples in consecutive wells, column by column, the source wells from
\* the off-th well on; the buffer volumes of odd and even samples are b1, b2
ResolveDf(n, off, sample_vol, b1, b2) ==
  [k \in 1 .. n |->
     [src_well |-> BufferWell(((k + off - 1) % FullPlate) + 1),
      dst_well |-> BufferWell(k),
      sample_vol |-> sample_vol,
      buffer_vol |-> IF k % 2 = 1 THEN b1 ELSE b2]]

ResolveInputs ==
  { [df |-> ResolveDf(n, off, sample_vol, b1, b2),
     wl_comments |-> c, buffer_strategy |-> st] :
       n \in ResolveSizes, off \in ResolveOffsets, sample_vol \in {I(0), I(3)},
       b1 \in ResolveVolumes, b2 \in ResolveVolumes,
       c \in {None, "list"}, st \in {"first_column", "adaptive"} }

InitResolve ==
  /\ method = "resolve_buffer_transfers"
  /\ pc = "melt"
  /\ inp \in ResolveInputs
  /\ Len(inp.df) = FullPlate => inp.df[1].src_well = BufferWell(1)
  /\ i = 0
  /\ log = <<>>
  /\ solved = <<>>
  /\ df_wl = <<>>
  /\ buffer_vols = <<>>
  /\ df_formatted = <<>>
  /\ sample_rows = <<>>
  /\ manifests = <<>>
  /\ res = [current_well |-> 0, current_well_vol |-> I(0), error |-> ""]
  /\ events = <<>>
  /\ exit_code = -1
  /\ compared = <<>>

\* line 290: the places of the buffer rows in the dataframe, in its order
BufferRows(df) ==
  SelectSeq([k \in DOMAIN df |-> k], LAMBDA k : df[k].src_type = "buffer")

\* line 254-278: melt, sort, drop the empty transfers, name the buffer plate
resolve_melt ==
  /\ method = "resolve_buffer_transfers" /\ pc = "melt"
  /\ df_wl' = MeltedRows(inp.df)
  /\ pc' = IF inp.buffer_strategy = "first_column" THEN "first_column" ELSE "adaptive"
  \* line 302-303
  /\ res' = IF inp.buffer_strategy = "adaptive"
            THEN [res EXCEPT !.current_well = 1, !.current_well_vol = I(well_dead_vol)]
            ELSE res
  /\ i' = 1
  /\ UNCHANGED <<compared, method, inp, log, solved, buffer_vols, df_formatted,
                 sample_rows, manifests, events, exit_code>>

\* line 282-286 and 328
resolve_first_column ==
  /\ method = "resolve_buffer_transfers" /\ pc = "first_column"
  /\ df_wl' = FirstColumn(df_wl)
  /\ pc' = "done"
  /\ UNCHANGED <<compared, method, inp, i, log, solved, buffer_vols, df_formatted,
                 sample_rows, manifests, res, events, exit_code>>

\* line 305-321: one turn of the loop over the buffer rows
resolve_adaptive_row ==
  /\ method = "resolve_buffer_transfers" /\ pc = "adaptive"
  /\ i <= Len(BufferRows(df_wl))
  /\ LET idx == BufferRows(df_wl)[i]
         st == FillStep(df_wl[idx], res.current_well, res.current_well_vol, well_dead_vol)
     IN  IF st.current_well > FullPlate
         THEN /\ Raise
              /\ res' = [res EXCEPT !.error = "Total buffer volume exceeds plate capacity."]
              /\ UNCHANGED <<df_wl, i>>
         ELSE /\ res' = [res EXCEPT !.current_well = st.current_well,
                                    !.current_well_vol = st.current_well_vol]
              /\ df_wl' = [df_wl EXCEPT ![idx].src_well = BufferWell(st.current_well)]
              /\ i' = i + 1
              /\ pc' = pc /\ exit_code' = exit_code
  /\ UNCHANGED <<compared, method, inp, log, solved, buffer_vols, df_formatted,
                 sample_rows, manifests, events>>

\* line 323 and 328: the comment is appended to the list that was passed
resolve_adaptive_end ==
  /\ method = "resolve_buffer_transfers" /\ pc = "adaptive"
  /\ i > Len(BufferRows(df_wl))
  /\ IF inp.wl_comments = None
     THEN /\ Raise
          /\ res' = [res EXCEPT !.error = "AttributeError"]
          /\ log' = log
     ELSE /\ log' = Append(log, <<"Fill up the buffer plate column-wise up to well",
                                  BufferWell(res.current_well)>>)
          /\ pc' = "done"
          /\ UNCHANGED <<res, exit_code>>
  /\ UNCHANGED <<compared, method, inp, i, solved, df_wl, buffer_vols, df_formatted,
                 sample_rows, manifests, events>>

NextResolve ==
  \/ resolve_melt
  \/ resolve_first_column
  \/ resolve_adaptive_row
  \/ resolve_adaptive_end

SpecResolve == InitResolve /\ [][NextResolve]_vars

\* resolve_buffer_transfers has returned
Resolved == method = "resolve_buffer_transfers" /\ pc = "done"

\* C26: with the "first_column" strategy every buffer transfer of the
\* returned dataframe has its source well in column 1 of the buffer plate, in
\* the row of the sample's own source well, whatever the column of that well;
\* the sample transfers keep their source plate and well.
C26_FirstColumnIsColumnOne ==
  (Resolved /\ inp.buffer_strategy = "first_column") =>
    \A k \in DOMAIN df_wl :
      IF df_wl[k].src_type = "buffer"
      THEN /\ df_wl[k].src_name = "buffer_plate"
           /\ df_wl[k].src_well = <<inp.df[df_wl[k].sample].src_well[1], 1>>
      ELSE /\ df_wl[k].src_name = "src"
           /\ df_wl[k].src_well = inp.df[df_wl[k].sample].src_well

\* the place of a well in the column-major order A:1, B:1, ..., H:12
WellIndex(well) == (well[2] - 1) * buffer_plate_rows + well[1]

\* the loop of the "adaptive" strategy is running or has ended
InAdaptive ==
  /\ method = "resolve_buffer_transfers"
  /\ inp.buffer_strategy = "adaptive"
  /\ pc # "melt"

\* the buffer rows that have their well: the first i - 1 of them
AssignedRows == SubSeq(BufferRows(df_wl), 1, i - 1)

\* the wells are assigned in column-major order and never go back
WellsInOrder(assigned) ==
  /\ \A a \in DOMAIN assigned : \A b \in DOMAIN assigned :
       a < b => WellIndex(df_wl[assigned[a]].src_well)
                  <= WellIndex(df_wl[assigned[b]].src_well)
  /\ \A a \in DOMAIN assigned :
       WellIndex(df_wl[assigned[a]].src_well) \in 1 .. res.current_well

\* the tracked volume of the current well is at most well_max_vol
TrackedVolumeFits == RLe(res.current_well_vol, I(buffer_well_max_vol))

\* the run fails with the capacity error exactly when the next buffer row
\* does not fit in the 96th well
CapacityError ==
  /\ res.current_well \in 1 .. FullPlate
  /\ (pc = "raised" /\ res.error = "Total buffer volume exceeds plate capacity.")
       => /\ res.current_well = FullPlate
          /\ RLt(I(buffer_well_max_vol),
                 RAdd(res.current_well_vol,
                      VolToAdd(df_wl[BufferRows(df_wl)[i]].transfer_vol)))

\* C27: with the "adaptive" strategy the buffer wells are assigned in
\* column-major order without returning to an earlier well, the tracked volume
\* of a buffer well (dead volume, drawn volumes and 0.2 ul per sub-transfer)
\* never exceeds well_max_vol, and the run fails with the capacity error when
\* a 97th well is needed.
C27_AdaptiveFillsWellsInOrder ==
  InAdaptive =>
    /\ WellsInOrder(AssignedRows)
    /\ TrackedVolumeFits
    /\ CapacityError

\* C28: in ng mode the "Amount taken (ng)" written back for a pool is the
\* per-sample transfer amount pool_conc * pool_vol / (number of samples in that
\* pool), rounded to two decimals, also when the step holds several pools.
C28_AmountTakenIsTransferAmount ==
  method = "pool" =>
    \A k \in DOMAIN solved :
      solved[k].udf.unit = "ng" =>
        solved[k].udf.value = Round2(solved[k].sample_transfer_amount)

\* the write-backs to the LIMS so far, in their order
PutEvents == SelectSeq(events, LAMBDA e : e.op = "put")

\* norm() writes back unless it runs on local data (line 441)
WritesBack == method = "pool" \/ (method = "norm" /\ ~inp.opt.local_data)

\* the number of pools of pool(), of samples of norm()
NItems == IF method = "pool" THEN Len(inp) ELSE Len(inp.samples)

\* every solved item has been written back, in the order of the loop
PutWhenSolved(puts) ==
  /\ Len(puts) = Len(solved)
  /\ \A k \in DOMAIN solved :
       puts[k] = [op |-> "put", item |-> k, udf |-> solved[k].udf]

\* the write-backs come before everything else the run emits
PutsComeFirst ==
  \A j \in DOMAIN events : \A k \in DOMAIN events :
    (events[j].op = "put" /\ events[k].op # "put") => j < k

\* no event is taken back
EventsKept ==
  \A k \in DOMAIN events : k \in DOMAIN events' /\ events'[k] = events[k]

\* C29: in pool() and norm() the write-back of an item happens in the turn of
\* the loop that solves it, before later items are solved and before the
\* worklist is formatted; a run that aborts later has written back the earlier
\* items and emits no worklist, and no write-back is taken back.
C29_PutInsideLoop ==
  /\ [](WritesBack =>
          /\ PutWhenSolved(PutEvents)
          /\ PutsComeFirst
          /\ df_formatted # <<>> => Len(PutEvents) = NItems
          /\ pc = "raised" => ~Happened("write_worklist"))
  /\ [][EventsKept]_vars

\* a run that has written back an item and then aborted
C29_Witness ==
  /\ WritesBack
  /\ pc = "raised"
  /\ PutEvents # <<>>
  /\ ~Happened("write_worklist")

====
